---- MODULE Spec2Model ----
(***************************************************************************)
(* A model of the Caterva Blosc backend (src/caterva/caterva_blosc.c):     *)
(* the metadata codec, the geometry of an array, the repartitioner, the    *)
(* writer (append, from_buffer), the reader (get_slice_buffer, to_buffer)  *)
(* and the lifecycle operations (empty, open, squeeze, copy).              *)
(*                                                                         *)
(* C arrays of CATERVA_MAX_DIM entries are functions over 0..7, C buffers  *)
(* are functions over 0..n-1 of bytes, and the metadata blob is a sequence *)
(* of bytes (blob offset k is element k+1).                                *)
(***************************************************************************)
EXTENDS Integers, Sequences, FiniteSets, TLC

VARIABLES
    host,    \* the byte order of the machine: "little" or "big"
    params,  \* codec: the geometry handed to serialize_meta
    smeta,   \* codec: the blob serialize_meta returned
    dmeta,   \* codec: what deserialize_meta read back
    arr,     \* the caterva_array_t
    sc,      \* its super-chunk
    result,  \* the destination buffer and return of the read in progress
    lastcall, \* the last call that wrote to the array, with the state before it
    hist,    \* how the array got its contents
    copied   \* the destination of the last copy: its array and super-chunk

vars == <<host, params, smeta, dmeta, arr, sc, result, lastcall, hist, copied>>

codec_vars == <<params, smeta, dmeta>>

array_vars == <<arr, sc, result, lastcall, hist, copied>>

\* ------------------------------------------------------------------------
\* Program constants
\* ------------------------------------------------------------------------

CATERVA_MAX_DIM == 8

CATERVA_METALAYER_VERSION == 0

Dims == 0..(CATERVA_MAX_DIM - 1)

NoValue == [absent |-> TRUE]

\* the element of a set of one element
Only(S) == CHOOSE x \in S : TRUE

\* ------------------------------------------------------------------------
\* C integer arithmetic: / and % truncate towards zero
\* ------------------------------------------------------------------------

CDiv(a, b) ==
    IF a >= 0 THEN a \div b ELSE -((-a) \div b)

CMod(a, b) ==
    a - b * CDiv(a, b)

\* ------------------------------------------------------------------------
\* Scalars in memory.  A value of the model is a 32-bit quantity; an int64
\* whose bytes do not sign-extend a 32-bit value reads as OutOfRange (with
\* its sign), a value no input of the model takes.
\* ------------------------------------------------------------------------

OutOfRange == (2 ^ 30 - 1) * 2 + 1

LEBytes(v, size) ==
    [k \in 0..(size - 1) |->
        IF k < 4 THEN (v \div (256 ^ k)) % 256
        ELSE IF v < 0 THEN 255 ELSE 0]

Reverse(b, size) ==
    [k \in 0..(size - 1) |-> b[size - 1 - k]]

\* the bytes of the object holding v, in the byte order of the host
HostBytes(v, size, h) ==
    IF h = "little" THEN LEBytes(v, size) ELSE Reverse(LEBytes(v, size), size)

FromLE(b, size) ==
    LET top  == IF b[size - 1] >= 128 THEN 255 ELSE 0
        b3   == IF size >= 4 THEN b[3] ELSE top
        b2   == IF size >= 3 THEN b[2] ELSE top
        b1   == IF size >= 2 THEN b[1] ELSE top
        low  == b[0] + 256 * b1 + 65536 * b2
                + 16777216 * (IF b3 >= 128 THEN b3 - 256 ELSE b3)
    IN  IF \A k \in 4..(size - 1) : b[k] = top
        THEN low
        ELSE IF b[size - 1] >= 128 THEN -OutOfRange ELSE OutOfRange

\* the value of the object whose bytes are b, read on the host
FromHostBytes(b, size, h) ==
    IF h = "little" THEN FromLE(b, size) ELSE FromLE(Reverse(b, size), size)

\* a block returned by malloc and never written: it holds what was there
\* before, size - 1 bytes equal to fill[1] and a last byte equal to fill[2]
Uninit(size, fill) ==
    [k \in 0..(size - 1) |-> IF k < size - 1 THEN fill[1] ELSE fill[2]]

\* ------------------------------------------------------------------------
\* swap_store: the bytes memcpy'd to dest.  pa2_ is written only when the
\* host is little-endian and the size is 8, 4, 2 or 1; otherwise the bytes
\* copied are those malloc returned.
\* ------------------------------------------------------------------------

swap_store(pa, size, h, fill) ==
    IF h = "little" /\ size \in {8, 4, 2, 1}
    THEN [k \in 0..(size - 1) |-> pa[size - 1 - k]]
    ELSE Uninit(size, fill)

AsSeq(b, size) ==
    [k \in 1..size |-> b[k - 1]]

\* ------------------------------------------------------------------------
\* serialize_meta.  fill names the content of the three uninitialised pa2_
\* blocks (one per vector) should swap_store leave them unwritten.
\* ------------------------------------------------------------------------

SerializeEntries(ndim, v, tag, size, h, fill) ==
    LET out[i \in 0..ndim] ==
            IF i = 0 THEN << >>
            ELSE out[i - 1] \o <<tag>>
                 \o AsSeq(swap_store(HostBytes(v[i - 1], size, h), size, h, fill), size)
    IN  out[ndim]

\* serialize_meta with the chunkshape entries written as int64 (8 payload bytes)
serialize_meta_wide_chunkshape(ndim, shape, chunkshape, blockshape, h, fill) ==
    LET max_smeta_len == 1 + 1 + 1 + (1 + ndim * (1 + 8))
                         + (1 + ndim * (1 + 4)) + (1 + ndim * (1 + 4))
        bytes == <<(144 + 5) % 256, CATERVA_METALAYER_VERSION, ndim % 256>>
                 \o <<(144 + ndim) % 256>>
                 \o SerializeEntries(ndim, shape, 211, 8, h, fill[1])
                 \o <<(144 + ndim) % 256>>
                 \o SerializeEntries(ndim, chunkshape, 211, 8, h, fill[2])
                 \o <<(144 + ndim) % 256>>
                 \o SerializeEntries(ndim, blockshape, 210, 4, h, fill[3])
    IN  [smeta |-> bytes, slen |-> Len(bytes), max_smeta_len |-> max_smeta_len]

serialize_meta(ndim, shape, chunkshape, blockshape, h, fill) ==
    LET max_smeta_len == 1 + 1 + 1 + (1 + ndim * (1 + 8))
                         + (1 + ndim * (1 + 4)) + (1 + ndim * (1 + 4))
        bytes == <<(144 + 5) % 256, CATERVA_METALAYER_VERSION, ndim % 256>>
                 \o <<(144 + ndim) % 256>>
                 \o SerializeEntries(ndim, shape, 211, 8, h, fill[1])
                 \o <<(144 + ndim) % 256>>
                 \o SerializeEntries(ndim, chunkshape, 210, 4, h, fill[2])
                 \o <<(144 + ndim) % 256>>
                 \o SerializeEntries(ndim, blockshape, 210, 4, h, fill[3])
    IN  [smeta |-> bytes, slen |-> Len(bytes), max_smeta_len |-> max_smeta_len]

\* ------------------------------------------------------------------------
\* deserialize_meta.  pmeta is an offset into the blob; asserts records
\* whether every assert of the function holds (they are compiled out
\* under NDEBUG and the function returns 0 either way).
\* ------------------------------------------------------------------------

Byte(blob, off) ==
    IF off + 1 \in DOMAIN blob THEN blob[off + 1] ELSE 0

Slice(blob, off, size) ==
    [k \in 0..(size - 1) |-> Byte(blob, off + k)]

\* entry i of a vector read at offset off: tag byte, then size payload bytes
DeserializeEntry(blob, off, i, size, h, fill) ==
    FromHostBytes(swap_store(Slice(blob, off + 1 + i * (1 + size) + 1, size), size, h, fill),
                  size, h)

DeserializeVector(blob, off, ndim_aux, size, h, fill) ==
    [i \in Dims |->
        IF i < ndim_aux THEN DeserializeEntry(blob, off, i, size, h, fill) ELSE 1]

TagsOk(blob, off, ndim_aux, tag, size) ==
    /\ Byte(blob, off) = (144 + ndim_aux) % 256
    /\ \A i \in 0..(ndim_aux - 1) : Byte(blob, off + 1 + i * (1 + size)) = tag

deserialize_meta(blob, smeta_len, h, fill) ==
    LET version  == IF Byte(blob, 1) >= 128 THEN Byte(blob, 1) - 256 ELSE Byte(blob, 1)
        ndim     == IF Byte(blob, 2) >= 128 THEN Byte(blob, 2) - 256 ELSE Byte(blob, 2)
        ndim_aux == ndim
        n        == IF ndim_aux > 0 THEN ndim_aux ELSE 0
        o_shape  == 3
        o_chunk  == o_shape + 1 + n * (1 + 8)
        o_block  == o_chunk + 1 + n * (1 + 4)
        o_end    == o_block + 1 + n * (1 + 4)
    IN  [rc         |-> 0,
         version    |-> version,
         ndim       |-> ndim,
         shape      |-> DeserializeVector(blob, o_shape, ndim_aux, 8, h, fill[1]),
         chunkshape |-> DeserializeVector(blob, o_chunk, ndim_aux, 4, h, fill[2]),
         blockshape |-> DeserializeVector(blob, o_block, ndim_aux, 4, h, fill[3]),
         asserts    |-> /\ Byte(blob, 0) = 144 + 5
                        /\ version <= CATERVA_METALAYER_VERSION
                        /\ ndim_aux <= CATERVA_MAX_DIM
                        /\ TagsOk(blob, o_shape, ndim_aux, 211, 8)
                        /\ TagsOk(blob, o_chunk, ndim_aux, 210, 4)
                        /\ TagsOk(blob, o_block, ndim_aux, 210, 4)
                        /\ o_end = smeta_len]

\* ------------------------------------------------------------------------
\* Result codes
\* ------------------------------------------------------------------------

CATERVA_SUCCEED == "SUCCEED"

CATERVA_ERR_INVALID_ARGUMENT == "ERR_INVALID_ARGUMENT"

CATERVA_ERR_BLOSC_FAILED == "ERR_BLOSC_FAILED"

CATERVA_ERR_INVALID_INDEX == "ERR_INVALID_INDEX"

CATERVA_ERR_NULL_POINTER == "ERR_NULL_POINTER"

\* ------------------------------------------------------------------------
\* Vectors
\* ------------------------------------------------------------------------

\* a C array holding the values of v: every entry is worked out once, when
\* the array is written
Array(v) ==
    v @@ << >>

\* the product of v[lo..hi]
Prod(v, lo, hi) ==
    LET acc[i \in (lo - 1)..hi] == IF i < lo THEN 1 ELSE acc[i - 1] * v[i]
    IN  IF hi < lo THEN 1 ELSE acc[hi]

\* d[(CATERVA_MAX_DIM - ndim + i) % CATERVA_MAX_DIM] = v[i] for every i
RightAlign(v, ndim) ==
    Array([k \in Dims |->
              v[CHOOSE i \in Dims : (CATERVA_MAX_DIM - ndim + i) % CATERVA_MAX_DIM = k]])

\* d[i] = v[(CATERVA_MAX_DIM - ndim + i) % CATERVA_MAX_DIM] for every i
LeftAlign(v, ndim) ==
    Array([i \in Dims |-> v[(CATERVA_MAX_DIM - ndim + i) % CATERVA_MAX_DIM]])

\* sum over i in lo..hi of idx[i] * (dims[i+1] * ... * dims[7]): the loops
\* "p += idx[i] * inc; inc *= dims[i]" running from the last axis down
Weighted(idx, dims, lo, hi) ==
    LET acc[i \in (lo - 1)..hi] ==
            IF i < lo THEN 0
            ELSE acc[i - 1] + idx[i] * Prod(dims, i + 1, CATERVA_MAX_DIM - 1)
    IN  IF hi < lo THEN 0 ELSE acc[hi]

index_unidim_to_multidim(ndim, shape, i) ==
    LET strides[j \in 0..(ndim - 1)] ==
            IF j = ndim - 1 THEN 1 ELSE shape[j + 1] * strides[j + 1]
    IN  Array([j \in 0..(ndim - 1) |->
                  IF j = 0 THEN CDiv(i, strides[0])
                  ELSE CDiv(CMod(i, strides[j - 1]), strides[j])])

\* aux[i] = extent[i] / part[i] * aux[i + 1]: the number of parts an array of
\* the axes from i on is cut into
PartStrides(extent, part) ==
    LET aux[i \in Dims] ==
            IF i = CATERVA_MAX_DIM - 1
            THEN CDiv(extent[CATERVA_MAX_DIM - 1], part[CATERVA_MAX_DIM - 1])
            ELSE CDiv(extent[i], part[i]) * aux[i + 1]
    IN  Array(aux)

\* where part number n lies on every axis: n % aux[i] / aux[i + 1], and
\* n % (extent[7] / part[7]) on the last axis
PartPosition(n, extent, part) ==
    LET aux == PartStrides(extent, part)
    IN  Array([i \in Dims |->
                  IF i = CATERVA_MAX_DIM - 1
                  THEN CMod(n, CDiv(extent[CATERVA_MAX_DIM - 1],
                                    part[CATERVA_MAX_DIM - 1]))
                  ELSE CDiv(CMod(n, aux[i]), aux[i + 1])])

\* ------------------------------------------------------------------------
\* Geometry of an array: the padded extents and the counters
\* ------------------------------------------------------------------------

\* x % m in C; with m = 0 the behaviour is undefined and ub is the result
CModUB(x, m, ub) ==
    IF m = 0 THEN ub ELSE CMod(x, m)

\* shape[i] rounded up to a multiple of chunkshape[i] as the code does it
ExtShapeAt(shape_i, chunkshape_i, ub) ==
    IF shape_i # 0
    THEN IF CModUB(shape_i, chunkshape_i, ub) = 0 THEN shape_i
         ELSE shape_i + chunkshape_i - CModUB(shape_i, chunkshape_i, ub)
    ELSE 0

ExtChunkShapeAt(shape_i, chunkshape_i, blockshape_i, ub) ==
    IF shape_i # 0
    THEN IF CModUB(chunkshape_i, blockshape_i, ub) = 0 THEN chunkshape_i
         ELSE chunkshape_i + blockshape_i - CModUB(chunkshape_i, blockshape_i, ub)
    ELSE 0

\* v[i] for i < ndim and dflt from ndim on
Padded(v, ndim, dflt) ==
    Array([i \in Dims |-> IF i < ndim THEN v[i] ELSE dflt])

\* the counters over the vectors given
GeometryOf(ndim, sh, cs, bs, es, ecs) ==
    [ndim           |-> ndim,
     shape          |-> sh,
     chunkshape     |-> cs,
     blockshape     |-> bs,
     extshape       |-> es,
     extchunkshape  |-> ecs,
     nitems         |-> Prod(sh, 0, ndim - 1),
     chunknitems    |-> Prod(cs, 0, ndim - 1),
     blocknitems    |-> Prod(bs, 0, ndim - 1),
     extnitems      |-> Prod(es, 0, ndim - 1),
     extchunknitems |-> Prod(ecs, 0, ndim - 1)]

\* the geometry fields empty, from_schunk and update_shape all compute:
\* entries below ndim from the vectors given, entries from ndim on equal to 1
Geometry(ndim, shape, chunkshape, blockshape, ub) ==
    GeometryOf(ndim,
        Padded(shape, ndim, 1), Padded(chunkshape, ndim, 1),
        Padded(blockshape, ndim, 1),
        Array([i \in Dims |->
                  IF i < ndim THEN ExtShapeAt(shape[i], chunkshape[i], ub) ELSE 1]),
        Array([i \in Dims |->
                  IF i < ndim
                  THEN ExtChunkShapeAt(shape[i], chunkshape[i], blockshape[i], ub)
                  ELSE 1]))

\* record r with the fields of record g set
With(r, g) ==
    g @@ r

\* ------------------------------------------------------------------------
\* The super-chunk backend: the chunks appended so far, each a buffer of
\* bytes, and the "caterva" metalayer
\* ------------------------------------------------------------------------

blosc2_schunk_new(typesize, blocksize) ==
    [typesize |-> typesize, blocksize |-> blocksize, chunks |-> << >>,
     meta |-> NoValue]

\* blosc2_meta_add and blosc2_meta_update of the "caterva" metalayer
blosc2_meta_set(schunk, blob) ==
    [schunk EXCEPT !.meta = blob]

\* appending fails (a negative return) when fault holds
blosc2_schunk_append_buffer(schunk, buf, nbytes, fault) ==
    IF fault
    THEN [rc |-> -1, sc |-> schunk]
    ELSE [rc |-> Len(schunk.chunks) + 1,
          sc |-> [schunk EXCEPT !.chunks =
                      Append(@, Array([k \in 0..(nbytes - 1) |-> buf[k]]))]]

\* decompression of chunk nchunk into dest (of dest_cap bytes): the blocks
\* in maskout are left as they are in dest; maskout = {} when no mask was
\* installed.  A chunk the backend does not hold, or one that does not
\* fit, is an error and leaves dest alone.
blosc2_schunk_decompress_chunk(schunk, nchunk, dest, dest_cap, maskout, fault) ==
    IF fault \/ nchunk < 0 \/ nchunk >= Len(schunk.chunks)
    THEN [rc |-> -1, dest |-> dest]
    ELSE IF Cardinality(DOMAIN schunk.chunks[nchunk + 1]) > dest_cap
    THEN [rc |-> -1, dest |-> dest]
    ELSE [rc   |-> Cardinality(DOMAIN schunk.chunks[nchunk + 1]),
          dest |-> Array([k \in DOMAIN dest |->
                      IF k \in DOMAIN schunk.chunks[nchunk + 1]
                         /\ (k \div schunk.blocksize) \notin maskout
                      THEN schunk.chunks[nchunk + 1][k] ELSE dest[k]])]

\* ------------------------------------------------------------------------
\* Buffers
\* ------------------------------------------------------------------------

\* a byte nobody wrote: it stands for every value the byte may hold
Junk == -1

Alloc(n) ==
    Array([k \in 0..(n - 1) |-> Junk])

Zeros(n) ==
    Array([k \in 0..(n - 1) |-> 0])

\* memcpy(dst + doff, src + soff, len): a byte written past the end of dst
\* is kept, at its offset, and a byte read past the end of src is Junk
Memcpy(dst, doff, src, soff, len) ==
    Array([k \in (DOMAIN dst) \cup (doff..(doff + len - 1)) |->
              IF k >= doff /\ k < doff + len
              THEN IF (soff + (k - doff)) \in DOMAIN src
                   THEN src[soff + (k - doff)] ELSE Junk
              ELSE dst[k]])

\* ------------------------------------------------------------------------
\* The repartitioner
\* ------------------------------------------------------------------------

\* one memcpy of the repartitioner: line n of block sci, whose first item is
\* at orig in the chunk and of which actual_spsize lies inside the chunk
RepartLine(buf, ncopy, sci, orig, actual_spsize, chunk, array, f) ==
    LET ii        == index_unidim_to_multidim(CATERVA_MAX_DIM - 1, actual_spsize, ncopy)
        d_coord_f == sci * array.blocknitems
                     + Weighted(ii, f.d_spshape, 0, CATERVA_MAX_DIM - 2)
        s_coord_f == orig[CATERVA_MAX_DIM - 1]
                     + Weighted(Array([i \in 0..(CATERVA_MAX_DIM - 2) |-> orig[i] + ii[i]]),
                                f.d_pshape, 0, CATERVA_MAX_DIM - 2)
    IN  Memcpy(buf, d_coord_f * array.itemsize, chunk, s_coord_f * array.itemsize,
               actual_spsize[CATERVA_MAX_DIM - 1] * array.itemsize)

\* one turn of "for (ncopy = 0; ncopy < ncopies; ++ncopy)"
RepartCopy(st, ncopies, sci, orig, actual_spsize, chunk, array, f) ==
    IF st.ncopy >= ncopies THEN st
    ELSE [ncopy |-> st.ncopy + 1,
          buf   |-> RepartLine(st.buf, st.ncopy, sci, orig, actual_spsize, chunk,
                               array, f)]

\* the loop over the lines of block sci, from the turn st
RECURSIVE RepartCopies(_, _, _, _, _, _, _, _)
RepartCopies(st, ncopies, sci, orig, actual_spsize, chunk, array, f) ==
    IF st.ncopy >= ncopies THEN st
    ELSE Only({ RepartCopies(nx, ncopies, sci, orig, actual_spsize, chunk, array, f) :
                    nx \in { RepartCopy(st, ncopies, sci, orig, actual_spsize,
                                        chunk, array, f) } })

\* the lines of block sci
RepartLines(buf, sci, orig, actual_spsize, chunk, array, f) ==
    RepartCopies([ncopy |-> 0, buf |-> buf],
                 Prod(actual_spsize, 0, CATERVA_MAX_DIM - 2),
                 sci, orig, actual_spsize, chunk, array, f).buf

\* the part of block sci were every block whole
RepartSize_whole(orig, f) ==
    Array([i \in Dims |-> f.d_spshape[i]])

\* the part of block sci that lies inside the chunk
RepartSize(orig, f) ==
    Array([i \in Dims |->
              IF orig[i] + f.d_spshape[i] > f.d_pshape[i]
              THEN f.d_pshape[i] - orig[i]
              ELSE f.d_spshape[i]])

\* the coordinates in the chunk of the first item of block sci
RepartOrigin(sci, f) ==
    LET pos == PartPosition(sci, f.d_epshape, f.d_spshape)
    IN  Array([i \in Dims |-> pos[i] * f.d_spshape[i]])

\* one turn of "for (sci = 0; sci < extchunknitems / blocknitems; sci++)"
RepartBlock(st, nblocks, chunk, array, f) ==
    IF st.sci >= nblocks THEN st
    ELSE [sci |-> st.sci + 1,
          buf |-> RepartLines(st.buf, st.sci, RepartOrigin(st.sci, f),
                              RepartSize(RepartOrigin(st.sci, f), f), chunk, array, f)]

\* the loop over the blocks of the chunk, from the turn st
RECURSIVE RepartBlocks(_, _, _, _, _)
RepartBlocks(st, nblocks, chunk, array, f) ==
    IF st.sci >= nblocks THEN st
    ELSE Only({ RepartBlocks(nx, nblocks, chunk, array, f) :
                    nx \in { RepartBlock(st, nblocks, chunk, array, f) } })

caterva_blosc_array_repart_chunk(rchunk, rchunksize, chunk, chunksize, array) ==
    IF rchunksize # array.extchunknitems * array.itemsize
    THEN [rc |-> CATERVA_ERR_INVALID_ARGUMENT, rchunk |-> rchunk]
    ELSE IF chunksize # array.chunknitems * array.itemsize
    THEN [rc |-> CATERVA_ERR_INVALID_ARGUMENT, rchunk |-> rchunk]
    ELSE [rc     |-> CATERVA_SUCCEED,
          rchunk |-> RepartBlocks(
                         [sci |-> 0, buf |-> Zeros(rchunksize)],
                         CDiv(array.extchunknitems, array.blocknitems), chunk, array,
                         [d_pshape  |-> RightAlign(array.chunkshape, array.ndim),
                          d_epshape |-> RightAlign(array.extchunkshape, array.ndim),
                          d_spshape |-> RightAlign(array.blockshape, array.ndim)]).buf]

\* ------------------------------------------------------------------------
\* The writer: append and from_buffer
\* ------------------------------------------------------------------------

\* one line of the padded chunk: it is copied from the short chunk unless it
\* lies outside next_chunkshape
PadLine(prev, ncopies, next_pshape, c_pshape, bchunk, array) ==
    IF prev.ncopy >= ncopies THEN prev
    ELSE
    LET ii    == index_unidim_to_multidim(CATERVA_MAX_DIM - 1, c_pshape, prev.ncopy)
        blank == \E i \in 0..(CATERVA_MAX_DIM - 2) : ii[i] >= next_pshape[i]
    IN  [ncopy    |-> prev.ncopy + 1,
         buf      |-> IF blank THEN prev.buf
                      ELSE Memcpy(prev.buf, prev.ind_dest * array.itemsize,
                                  bchunk, prev.ind_src * array.itemsize,
                                  next_pshape[CATERVA_MAX_DIM - 1] * array.itemsize),
         ind_src  |-> IF blank THEN prev.ind_src
                      ELSE prev.ind_src + next_pshape[CATERVA_MAX_DIM - 1],
         ind_dest |-> prev.ind_dest + c_pshape[CATERVA_MAX_DIM - 1]]

\* the loop over the lines of the padded chunk, from the turn st
RECURSIVE PadCopies(_, _, _, _, _, _)
PadCopies(st, ncopies, next_pshape, c_pshape, bchunk, array) ==
    IF st.ncopy >= ncopies THEN st
    ELSE Only({ PadCopies(nx, ncopies, next_pshape, c_pshape, bchunk, array) :
                    nx \in { PadLine(st, ncopies, next_pshape, c_pshape, bchunk,
                                     array) } })

PadLines(next_pshape, c_pshape, bchunk, array) ==
    PadCopies([ncopy    |-> 0,
               buf      |-> Zeros(array.chunknitems * array.itemsize),
               ind_src  |-> 0,
               ind_dest |-> 0],
              Prod(c_pshape, 0, CATERVA_MAX_DIM - 2),
              next_pshape, c_pshape, bchunk, array).buf

\* PaddedChunk with the short chunk copied in one piece to the front
PaddedChunk_prefix(array, bchunk) ==
    Memcpy(Zeros(array.chunknitems * array.itemsize), 0, bchunk, 0,
           array.next_chunknitems * array.itemsize)

\* the short chunk pasted at the origin of a zeroed chunk of full size
PaddedChunk(array, bchunk) ==
    PadLines(RightAlign(array.next_chunkshape, array.ndim),
             RightAlign(array.chunkshape, array.ndim), bchunk, array)

\* the extent of the chunk at poschunk: the chunkshape, cut on the axes where
\* the chunk is the last one and the array is padded
NextChunkShape(poschunk, c_shape, c_eshape, c_pshape) ==
    Array([i \in Dims |->
              IF poschunk[i] >= CDiv(c_eshape[i], c_pshape[i]) - 1
                 /\ c_eshape[i] > c_shape[i]
              THEN c_pshape[i] - (c_eshape[i] - c_shape[i])
              ELSE c_pshape[i]])

NextChunkFields(n_pshape, c_ndim) ==
    [next_chunknitems |-> Prod(n_pshape, 0, CATERVA_MAX_DIM - 1),
     next_chunkshape  |-> LeftAlign(n_pshape, c_ndim)]

\* NextChunkGeometry at the position of the chunk just appended
NextChunkGeometry_appended(array) ==
    NextChunkFields(
        NextChunkShape(
            PartPosition(array.nchunks,
                         RightAlign(array.extshape, array.ndim),
                         RightAlign(array.chunkshape, array.ndim)),
            RightAlign(array.shape, array.ndim),
            RightAlign(array.extshape, array.ndim),
            RightAlign(array.chunkshape, array.ndim)),
        array.ndim)

\* next_chunkshape and next_chunknitems as append leaves them: those of the
\* chunk at the position of number array.nchunks + 1
NextChunkGeometry(array) ==
    NextChunkFields(
        NextChunkShape(
            PartPosition(array.nchunks + 1,
                         RightAlign(array.extshape, array.ndim),
                         RightAlign(array.chunkshape, array.ndim)),
            RightAlign(array.shape, array.ndim),
            RightAlign(array.extshape, array.ndim),
            RightAlign(array.chunkshape, array.ndim)),
        array.ndim)

\* caterva_blosc_array_append with the chunk not handed to the backend
caterva_blosc_array_append_unstored(array, schunk, chunk, chunksize, fault) ==
    IF fault
    THEN [rc |-> CATERVA_ERR_BLOSC_FAILED, array |-> array, sc |-> schunk,
          live |-> {"rchunk"}]
    ELSE [rc    |-> CATERVA_SUCCEED,
          array |-> With(array, NextChunkGeometry(array)),
          sc    |-> schunk,
          live  |-> {}]

\* a chunk of another size than a full chunk is pasted into a zeroed full
\* chunk first; the chunk handed to the repartitioner has size_chunk bytes
\* on both paths.  live: the buffers obtained from the allocator and not
\* released at the return (paddedchunk is released before the backend is
\* called, rchunk only after the backend accepted the chunk)
caterva_blosc_array_append(array, schunk, chunk, chunksize, fault) ==
    LET size_rep   == array.extchunknitems * array.itemsize
        size_chunk == array.chunknitems * array.itemsize
        padding    == chunksize # size_chunk
        rp == caterva_blosc_array_repart_chunk(Alloc(size_rep), size_rep,
                  IF padding THEN PaddedChunk(array, chunk) ELSE chunk,
                  size_chunk, array)
        ap == blosc2_schunk_append_buffer(schunk, rp.rchunk, size_rep, fault)
    IN  IF ap.rc < 0
        THEN [rc |-> CATERVA_ERR_BLOSC_FAILED, array |-> array, sc |-> ap.sc,
              live |-> {"rchunk"}]
        ELSE [rc    |-> CATERVA_SUCCEED,
              array |-> With(array, NextChunkGeometry(array)),
              sc    |-> ap.sc,
              live  |-> {}]

\* caterva_append, the dispatcher over caterva_blosc_array_append: a full
\* chunk or a chunk of the next logical size is accepted while the array is
\* not filled; after the append nchunks is incremented
caterva_append(array, schunk, chunk, chunksize, fault) ==
    IF array.filled
       \/ chunksize \notin {array.chunknitems * array.itemsize,
                            array.next_chunknitems * array.itemsize}
    THEN [rc |-> CATERVA_ERR_INVALID_ARGUMENT, array |-> array, sc |-> schunk,
          live |-> {}]
    ELSE
    LET r == caterva_blosc_array_append(array, schunk, chunk, chunksize, fault)
    IN  IF r.rc # CATERVA_SUCCEED THEN r
        ELSE [r EXCEPT !.array =
                 With(r.array,
                      [nchunks |-> array.nchunks + 1,
                       empty   |-> FALSE,
                       filled  |-> IF array.nchunks + 1
                                      = CDiv(array.extnitems, array.chunknitems)
                                   THEN TRUE ELSE array.filled])]

\* one memcpy of from_buffer: line n of the chunk at desp
ChunkLine(buf, ncopy, desp, actual_psize, bbuffer, array, f) ==
    LET ii        == index_unidim_to_multidim(CATERVA_MAX_DIM - 1, actual_psize, ncopy)
        d_coord_f == Weighted(ii, f.d_pshape, 0, CATERVA_MAX_DIM - 2)
        s_coord_f == desp[CATERVA_MAX_DIM - 1]
                     + Weighted(Array([i \in 0..(CATERVA_MAX_DIM - 2) |-> desp[i] + ii[i]]),
                                f.d_shape, 0, CATERVA_MAX_DIM - 2)
    IN  Memcpy(buf, d_coord_f * array.itemsize, bbuffer, s_coord_f * array.itemsize,
               actual_psize[CATERVA_MAX_DIM - 1] * array.itemsize)

\* one turn of "for (ncopy = 0; ncopy < ncopies; ++ncopy)"
ChunkCopy(st, ncopies, desp, actual_psize, bbuffer, array, f) ==
    IF st.ncopy >= ncopies THEN st
    ELSE [ncopy |-> st.ncopy + 1,
          buf   |-> ChunkLine(st.buf, st.ncopy, desp, actual_psize, bbuffer, array, f)]

\* the loop over the lines of the chunk at desp, from the turn st
RECURSIVE ChunkCopies(_, _, _, _, _, _, _)
ChunkCopies(st, ncopies, desp, actual_psize, bbuffer, array, f) ==
    IF st.ncopy >= ncopies THEN st
    ELSE Only({ ChunkCopies(nx, ncopies, desp, actual_psize, bbuffer, array, f) :
                    nx \in { ChunkCopy(st, ncopies, desp, actual_psize, bbuffer,
                                       array, f) } })

ChunkLines(desp, actual_psize, bbuffer, array, f) ==
    ChunkCopies([ncopy |-> 0, buf |-> Zeros(array.chunknitems * array.itemsize)],
                Prod(actual_psize, 0, CATERVA_MAX_DIM - 2),
                desp, actual_psize, bbuffer, array, f).buf

\* the part of the chunk at desp that lies inside the array
ChunkSize(desp, f) ==
    Array([i \in Dims |->
              IF desp[i] + f.d_pshape[i] > f.d_shape[i]
              THEN f.d_shape[i] - desp[i]
              ELSE f.d_pshape[i]])

\* ChunkOrigin with the position in the chunk grid taken for the coordinates
ChunkOrigin_unscaled(ci, f) ==
    LET pos == PartPosition(ci, f.d_eshape, f.d_pshape)
    IN  Array([i \in Dims |-> pos[i]])

\* the coordinates in the array of the first item of chunk ci
ChunkOrigin(ci, f) ==
    LET pos == PartPosition(ci, f.d_eshape, f.d_pshape)
    IN  Array([i \in Dims |-> pos[i] * f.d_pshape[i]])

ChunkAt(desp, bbuffer, array, f) ==
    ChunkLines(desp, ChunkSize(desp, f), bbuffer, array, f)

\* the chunk of index ci cut out of the dense buffer, zero padded
ChunkOfBuffer(array, bbuffer, ci, f) ==
    ChunkAt(ChunkOrigin(ci, f), bbuffer, array, f)

\* one turn of the loop of from_buffer; fault: the backend refuses the chunk
FromBufferChunk(prev, ci, total, array, bbuffer, f, fault) ==
    IF prev.array.filled THEN [prev EXCEPT !.ci = ci + 1]
    ELSE [ci    |-> ci + 1,
          array |-> With(prev.array,
                         [empty   |-> FALSE,
                          nchunks |-> prev.array.nchunks + 1,
                          filled  |-> IF prev.array.nchunks + 1 = total
                                      THEN TRUE ELSE prev.array.filled]),
          sc    |-> blosc2_schunk_append_buffer(prev.sc,
                        caterva_blosc_array_repart_chunk(
                            Zeros(array.extchunknitems * array.itemsize),
                            array.extchunknitems * array.itemsize,
                            ChunkOfBuffer(array, bbuffer, ci, f),
                            array.chunknitems * array.itemsize, array).rchunk,
                        array.extchunknitems * array.itemsize, fault).sc]

\* the loop of from_buffer over the chunks, from the turn st
RECURSIVE FromBufferChunks(_, _, _, _, _, _)
FromBufferChunks(st, total, array, bbuffer, f, faults) ==
    IF st.ci >= total THEN st
    ELSE Only({ FromBufferChunks(nx, total, array, bbuffer, f, faults) :
                    nx \in { FromBufferChunk(st, st.ci, total, array, bbuffer, f,
                                             st.ci \in faults) } })

\* faults: the chunk indices at which the backend refuses the append.  The
\* return of blosc2_schunk_append_buffer is not looked at; chunk and rchunk
\* are released after the loop.
caterva_blosc_array_from_buffer(array, schunk, bbuffer, faults) ==
    LET done == FromBufferChunks(
                    [ci |-> 0, array |-> array, sc |-> schunk],
                    CDiv(array.extnitems, array.chunknitems), array, bbuffer,
                    [d_shape  |-> RightAlign(array.shape, array.ndim),
                     d_eshape |-> RightAlign(array.extshape, array.ndim),
                     d_pshape |-> RightAlign(array.chunkshape, array.ndim)],
                    faults)
    IN  [rc |-> CATERVA_SUCCEED, array |-> done.array, sc |-> done.sc,
         live |-> {}]

\* ------------------------------------------------------------------------
\* The reader: get_slice_buffer and to_buffer
\* ------------------------------------------------------------------------

\* index_unidim_to_multidim over the whole of shape, moved by base
MultiIndexFrom(shape, i, base) ==
    LET idx == index_unidim_to_multidim(CATERVA_MAX_DIM, shape, i)
    IN  Array([k \in Dims |-> idx[k] + base[k]])

\* the right-aligned arrays of get_slice_buffer
SliceArrays(array, start, stop, shape) ==
    [start_    |-> RightAlign(Padded(start, array.ndim, 0), array.ndim),
     stop_     |-> RightAlign(Padded(stop, array.ndim, 1), array.ndim),
     d_pshape_ |-> RightAlign(Padded(shape, array.ndim, 1), array.ndim),
     s_eshape  |-> RightAlign(Padded(array.extshape, array.ndim, 1), array.ndim),
     s_pshape  |-> RightAlign(Padded(array.chunkshape, array.ndim, 1), array.ndim),
     s_epshape |-> RightAlign(Padded(array.extchunkshape, array.ndim, 1), array.ndim),
     s_spshape |-> RightAlign(Padded(array.blockshape, array.ndim, 1), array.ndim)]

\* start_ with its leading entries cleared, and the chunks the selection
\* touches: the first and the last on every axis, the grids of chunks in the
\* array and of blocks in a chunk
SliceChunks(s, s_ndim) ==
    [start_  |-> Array([j \in Dims |->
                           IF j < CATERVA_MAX_DIM - s_ndim THEN 0 ELSE s.start_[j]]),
     i_start |-> Array([i \in Dims |-> CDiv(s.start_[i], s.s_pshape[i])]),
     i_stop  |-> Array([i \in Dims |-> CDiv(s.stop_[i] - 1, s.s_pshape[i])]),
     i_shape |-> Array([i \in Dims |->
                           CDiv(s.stop_[i] - 1, s.s_pshape[i])
                           - CDiv(s.start_[i], s.s_pshape[i]) + 1]),
     cgrid   |-> Array([i \in Dims |-> CDiv(s.s_eshape[i], s.s_pshape[i])]),
     bgrid   |-> Array([i \in Dims |-> CDiv(s.s_epshape[i], s.s_spshape[i])])]
    @@ s

\* the arguments of one memcpy of the reader, for line n of the part
\* sp_start..sp_stop of block jj of chunk ii: the offsets in the destination
\* and in the chunk buffer, and the length, in bytes
CopyArgs(ncopy, b, c, f, typesize) ==
    LET k7 == index_unidim_to_multidim(CATERVA_MAX_DIM - 1, b.sp_shape, ncopy)
        kk == Array([i \in Dims |->
                        IF i = CATERVA_MAX_DIM - 1 THEN b.sp_start[CATERVA_MAX_DIM - 1]
                        ELSE k7[i] + b.sp_start[i]])
        sp_pointer  == Weighted(kk, f.s_spshape, 0, CATERVA_MAX_DIM - 1)
        buf_pointer ==
            Weighted(Array([i \in Dims |->
                               kk[i] + f.s_spshape[i] * b.jj[i]
                               + f.s_pshape[i] * c.ii[i] - f.start_[i]]),
                     f.d_pshape_, 0, CATERVA_MAX_DIM - 1)
    IN  [doff |-> buf_pointer * typesize,
         soff |-> (b.s_start + sp_pointer) * typesize,
         len  |-> (b.sp_stop[CATERVA_MAX_DIM - 1] - b.sp_start[CATERVA_MAX_DIM - 1])
                  * typesize]

\* one memcpy of the reader
CopyLine(buf, ncopy, b, c, f, typesize) ==
    LET a == CopyArgs(ncopy, b, c, f, typesize)
    IN  Memcpy(buf, a.doff, c.chunk, a.soff, a.len)

\* one turn of "for (ncopy = 0; ncopy < ncopies; ++ncopy)"
CopyCopy(st, ncopies, b, c, f, typesize) ==
    IF st.ncopy >= ncopies THEN st
    ELSE [ncopy |-> st.ncopy + 1,
          buf   |-> CopyLine(st.buf, st.ncopy, b, c, f, typesize)]

\* the loop over the lines of the part of a block, from the turn st
RECURSIVE CopyCopies(_, _, _, _, _, _)
CopyCopies(st, ncopies, b, c, f, typesize) ==
    IF st.ncopy >= ncopies THEN st
    ELSE Only({ CopyCopies(nx, ncopies, b, c, f, typesize) :
                    nx \in { CopyCopy(st, ncopies, b, c, f, typesize) } })

CopyLines(buf, b, c, f, typesize) ==
    CopyCopies([ncopy |-> 0, buf |-> buf],
               Prod(b.sp_shape, 0, CATERVA_MAX_DIM - 2), b, c, f, typesize).buf

\* sp_stop of block jj: the end of the selection in the block, cut where the
\* block runs over the chunk ("case padding")
BlockStop(jj, c, f) ==
    LET sp_stop == Array([i \in Dims |->
                             IF jj[i] = c.j_stop[i] /\ c.ii[i] = f.i_stop[i]
                             THEN CMod(CMod(f.stop_[i] - 1, f.s_pshape[i]),
                                       f.s_spshape[i]) + 1
                             ELSE f.s_spshape[i]])
    IN  Array([i \in Dims |->
                  IF (jj[i] + 1) * f.s_spshape[i] > f.s_pshape[i]
                     /\ CMod(f.s_pshape[i], f.s_spshape[i]) < sp_stop[i]
                  THEN CMod(f.s_pshape[i], f.s_spshape[i])
                  ELSE sp_stop[i]])

\* BlockStart with every block read from its first item
BlockStart_whole(jj, c, f) ==
    Array([i \in Dims |-> 0])

\* sp_start of block jj: where the selection begins in the block
BlockStart(jj, c, f) ==
    Array([i \in Dims |->
              IF jj[i] = c.j_start[i] /\ c.ii[i] = f.i_start[i]
              THEN CMod(CMod(f.start_[i], f.s_pshape[i]), f.s_spshape[i])
              ELSE 0])

\* the part of block jj that the selection takes
BlockPart(jj, sp_start, sp_stop, f, blocknitems) ==
    [jj       |-> jj,
     s_start  |-> Weighted(jj, f.bgrid, 0, CATERVA_MAX_DIM - 1) * blocknitems,
     sp_start |-> sp_start,
     sp_stop  |-> sp_stop,
     sp_shape |-> Array([i \in Dims |-> sp_stop[i] - sp_start[i]])]

CopyBlockAt(buf, jj, c, f, array) ==
    CopyLines(buf, BlockPart(jj, BlockStart(jj, c, f), BlockStop(jj, c, f), f,
                             array.blocknitems),
              c, f, array.itemsize)

\* one turn of "for (block_ind = 0; block_ind < num_blocks; ++block_ind)":
\* the block of index block_ind among those used of the chunk
CopyBlock(st, num_blocks, c, f, array) ==
    IF st.block_ind >= num_blocks THEN st
    ELSE [block_ind |-> st.block_ind + 1,
          buf       |-> CopyBlockAt(st.buf,
                            MultiIndexFrom(c.j_shape, st.block_ind, c.j_start),
                            c, f, array)]

\* the blocks of chunk ii the selection touches: the first and the last on
\* every axis
ChunkBlocks(ii, f) ==
    LET j_start == Array([i \in Dims |->
                             IF ii[i] = f.i_start[i]
                             THEN CDiv(CMod(f.start_[i], f.s_pshape[i]), f.s_spshape[i])
                             ELSE 0])
        j_stop  == Array([i \in Dims |->
                             IF ii[i] = f.i_stop[i]
                             THEN CDiv(CMod(f.stop_[i] - 1, f.s_pshape[i]),
                                       f.s_spshape[i])
                             ELSE f.bgrid[i] - 1])
    IN  [ii      |-> ii,
         nchunk  |-> Weighted(ii, f.cgrid, 0, CATERVA_MAX_DIM - 1),
         j_start |-> j_start,
         j_stop  |-> j_stop,
         j_shape |-> Array([i \in Dims |-> j_stop[i] - j_start[i] + 1])]

\* the entries of block_maskout cleared for chunk c: nblock of every block
\* used
BlocksUsed(c, f) ==
    { Weighted(MultiIndexFrom(c.j_shape, b, c.j_start), f.bgrid,
               0, CATERVA_MAX_DIM - 1) :
          b \in 0..(Prod(c.j_shape, 0, CATERVA_MAX_DIM - 1) - 1) }

\* the blocks left out of the decompression: all but those used
BlockMaskout(c, f, nblocks) ==
    (0..(nblocks - 1)) \ BlocksUsed(c, f)

\* ChunkData with the decompression left out when the cache names the chunk
ChunkData_hit(chunk, c, f, array, schunk, faults) ==
    IF array.chunk_cache.data # NoValue /\ array.chunk_cache.nchunk = c.nchunk
    THEN chunk
    ELSE blosc2_schunk_decompress_chunk(schunk, c.nchunk, chunk,
             array.extchunknitems * array.itemsize,
             BlockMaskout(c, f, CDiv(array.extchunknitems, array.blocknitems)),
             c.nchunk \in faults).dest

\* the chunk buffer after the decompression of chunk c.nchunk; the return
\* of the backend is not looked at
ChunkData(chunk, c, f, array, schunk, faults) ==
    blosc2_schunk_decompress_chunk(schunk, c.nchunk, chunk,
        array.extchunknitems * array.itemsize,
        BlockMaskout(c, f, CDiv(array.extchunknitems, array.blocknitems)),
        c.nchunk \in faults).dest

\* the loop over the blocks used of a chunk, from the turn st
RECURSIVE CopyBlocks(_, _, _, _, _)
CopyBlocks(st, num_blocks, cc, f, array) ==
    IF st.block_ind >= num_blocks THEN st
    ELSE Only({ CopyBlocks(nx, num_blocks, cc, f, array) :
                    nx \in { CopyBlock(st, num_blocks, cc, f, array) } })

\* the copies out of the chunk buffer cc.chunk
BlockCopies(buf, cc, f, array) ==
    CopyBlocks([block_ind |-> 0, buf |-> buf],
               Prod(cc.j_shape, 0, CATERVA_MAX_DIM - 1), cc, f, array).buf

ReadChunkAt(st, c, chunk, f, array) ==
    [chunk_ind |-> st.chunk_ind + 1,
     buffer |-> BlockCopies(st.buffer, [chunk |-> chunk] @@ c, f, array),
     chunk  |-> chunk,
     nchunk |-> IF array.chunk_cache.data # NoValue THEN c.nchunk ELSE st.nchunk]

ReadChunkOf(st, c, f, array, schunk, faults) ==
    ReadChunkAt(st, c, ChunkData(st.chunk, c, f, array, schunk, faults), f, array)

\* one turn of "for (chunk_ind = 0; chunk_ind < nchunks; ++chunk_ind)": the
\* work on the chunk of index chunk_ind among those used
ReadChunk(st, nchunks, f, array, schunk, faults) ==
    IF st.chunk_ind >= nchunks THEN st
    ELSE ReadChunkOf(st,
             ChunkBlocks(MultiIndexFrom(f.i_shape, st.chunk_ind, f.i_start), f),
             f, array, schunk, faults)

\* the loop over the chunks used, from the turn st
RECURSIVE ReadLoop(_, _, _, _, _, _)
ReadLoop(st, nchunks, f, array, schunk, faults) ==
    IF st.chunk_ind >= nchunks THEN st
    ELSE Only({ ReadLoop(nx, nchunks, f, array, schunk, faults) :
                    nx \in { ReadChunk(st, nchunks, f, array, schunk, faults) } })

\* the path of get_slice_buffer through the chunks and blocks the selection
\* touches; the chunk buffer is that of the cache when the array has one
ReadChunks(f, array, schunk, bbuffer, faults) ==
    ReadLoop([chunk_ind |-> 0,
              buffer |-> bbuffer,
              chunk  |-> IF array.chunk_cache.data # NoValue
                         THEN array.chunk_cache.data
                         ELSE Alloc(array.extchunknitems * array.itemsize),
              nchunk |-> array.chunk_cache.nchunk],
             Prod(f.i_shape, 0, CATERVA_MAX_DIM - 1), f, array, schunk, faults)

\* the array after a read: the cache, if there is one, holds the last chunk
AfterRead(array, done) ==
    IF array.chunk_cache.data # NoValue
    THEN [array EXCEPT !.chunk_cache = [data |-> done.chunk, nchunk |-> done.nchunk]]
    ELSE array

\* the aligned 1-dim read of one chunk: decompress into the destination
ReadAligned(array, schunk, nchunk, bbuffer, faults) ==
    LET dc == blosc2_schunk_decompress_chunk(schunk, nchunk, bbuffer,
                  array.chunknitems * schunk.typesize, {}, nchunk \in faults)
    IN  [rc     |-> IF dc.rc < 0 THEN CATERVA_ERR_BLOSC_FAILED ELSE CATERVA_SUCCEED,
         buffer |-> dc.dest,
         array  |-> array,
         live   |-> {}]

ReadGeneral(array, schunk, f, bbuffer, faults) ==
    LET done == ReadChunks(f, array, schunk, bbuffer, faults)
    IN  [rc     |-> CATERVA_SUCCEED,
         buffer |-> done.buffer,
         array  |-> AfterRead(array, done),
         live   |-> {}]

\* shape is the shape of the destination buffer; faults are the chunk
\* numbers whose decompression the backend refuses
caterva_blosc_array_get_slice_buffer(array, schunk, start, stop, shape, bbuffer, faults) ==
    IF /\ array.ndim = 1
       /\ array.chunkshape[0] = shape[0]
       /\ array.chunkshape[0] = array.blockshape[0]
       /\ CMod(start[0], array.chunkshape[0]) = 0
       /\ CMod(stop[0], array.chunkshape[0]) = 0
    THEN ReadAligned(array, schunk, CDiv(start[0], array.chunkshape[0]), bbuffer, faults)
    ELSE ReadGeneral(array, schunk,
                     SliceChunks(SliceArrays(array, start, stop, shape), array.ndim),
                     bbuffer, faults)

\* the return of get_slice_buffer is not looked at
caterva_blosc_array_to_buffer(array, schunk, bbuffer, faults) ==
    LET r == caterva_blosc_array_get_slice_buffer(array, schunk,
                 Array([i \in Dims |-> 0]), array.shape, array.shape, bbuffer, faults)
    IN  [rc |-> CATERVA_SUCCEED, buffer |-> r.buffer, array |-> r.array,
         live |-> r.live]

\* ------------------------------------------------------------------------
\* Lifecycle: empty, from_schunk, update_shape, squeeze_index, squeeze
\* ------------------------------------------------------------------------

NullCache == [data |-> NoValue, nchunk |-> -1]

\* caterva_blosc_array_empty: the array it builds (nchunks, filled and empty
\* are not written here) and the super-chunk holding the metadata blob
caterva_blosc_array_empty(p, st, h, fill) ==
    LET g  == Geometry(p.ndim, p.shape, st.chunkshape, st.blockshape, 0)
        a  == With([storage          |-> "BLOSC",
                    itemsize         |-> p.itemsize,
                    next_chunkshape  |-> g.chunkshape,
                    next_chunknitems |-> g.chunknitems,
                    chunk_cache      |-> NullCache],
                   g)
        sm == serialize_meta(p.ndim, p.shape, st.chunkshape, st.blockshape, h, fill)
    IN  [rc    |-> CATERVA_SUCCEED,
         array |-> a,
         sc    |-> blosc2_meta_set(
                       blosc2_schunk_new(p.itemsize, g.blocknitems * p.itemsize),
                       sm.smeta)]

\* the argument checks of the entry point: ndim in range, no negative
\* extent, and on every axis of some extent a chunk no longer than the axis
\* and a block no longer than the chunk
ValidArguments(p, st) ==
    /\ p.ndim \in 1..CATERVA_MAX_DIM
    /\ \A i \in 0..(p.ndim - 1) :
          /\ p.shape[i] >= 0
          /\ p.shape[i] > 0 =>
                /\ st.chunkshape[i] >= 1
                /\ st.chunkshape[i] <= p.shape[i]
                /\ st.blockshape[i] >= 1
                /\ st.blockshape[i] <= st.chunkshape[i]

\* caterva_empty, the dispatcher over caterva_blosc_array_empty: arguments
\* are checked, the new array holds no chunk, and an array of no item is
\* filled from the start
caterva_empty(p, st, h, fill) ==
    IF ~ValidArguments(p, st)
    THEN [rc |-> CATERVA_ERR_INVALID_ARGUMENT, array |-> NoValue, sc |-> NoValue]
    ELSE
    LET r == caterva_blosc_array_empty(p, st, h, fill)
    IN  [r EXCEPT !.array = With(r.array,
                                 [nchunks |-> 0,
                                  filled  |-> (r.array.nitems = 0),
                                  empty   |-> (r.array.nitems # 0)])]

\* caterva_blosc_from_schunk.  nchunks, next_chunkshape and next_chunknitems
\* are never written, and empty only for an array of no item: u is what the
\* unwritten fields hold, ub the result of a remainder by zero.  The return
\* of deserialize_meta is not looked at; asserts tells whether its asserts
\* hold of the blob.
caterva_blosc_from_schunk(schunk, h, fill, ub, u) ==
    IF schunk.meta = NoValue
    THEN [rc |-> CATERVA_ERR_BLOSC_FAILED, asserts |-> TRUE, array |-> NoValue]
    ELSE
    LET d == deserialize_meta(schunk.meta, Len(schunk.meta), h, fill)
        g == Geometry(d.ndim, d.shape, d.chunkshape, d.blockshape, ub)
        full == IF g.nitems = 0 THEN TRUE
                ELSE IF g.chunknitems = 0 THEN Len(schunk.chunks) = ub
                ELSE Len(schunk.chunks) = CDiv(g.extnitems, g.chunknitems)
    IN  [rc      |-> CATERVA_SUCCEED,
         asserts |-> d.asserts,
         array |-> With([storage          |-> "BLOSC",
                         itemsize         |-> schunk.typesize,
                         next_chunkshape  |-> Array([i \in Dims |-> u]),
                         next_chunknitems |-> u,
                         nchunks          |-> u,
                         chunk_cache      |-> NullCache,
                         filled           |-> full,
                         empty            |-> IF g.nitems = 0 THEN FALSE ELSE u # 0],
                        g)]

\* caterva_blosc_update_shape: the geometry recomputed and the blob rewritten
caterva_blosc_update_shape(array, schunk, ndim, shape, chunkshape, blockshape, h, fill) ==
    LET g  == Geometry(ndim, shape, chunkshape, blockshape, 0)
        a  == With(array, g)
        sm == serialize_meta(a.ndim, a.shape, a.chunkshape, a.blockshape, h, fill)
    IN  [rc    |-> CATERVA_SUCCEED,
         array |-> a,
         sc    |-> blosc2_meta_set(schunk, sm.smeta)]

\* the axes below ndim that index does not flag, in order
KeptAxes(ndim, index) ==
    LET acc[i \in 0..ndim] ==
            IF i = 0 THEN << >>
            ELSE IF index[i - 1] THEN acc[i - 1] ELSE Append(acc[i - 1], i - 1)
    IN  acc[ndim]

\* Compact with the first entries of v kept, whatever the mask
Compact_leading(v, kept) ==
    [i \in Dims |-> IF i < Len(kept) THEN v[i] ELSE 1]

Compact(v, kept) ==
    [i \in Dims |-> IF i < Len(kept) THEN v[kept[i + 1]] ELSE 1]

\* squeeze_index with the chunkshape compacted before the mask is checked
caterva_blosc_array_squeeze_index_early(array, schunk, index, h, fill) ==
    IF \E i \in 0..(array.ndim - 1) : index[i] /\ array.shape[i] # 1
    THEN [rc    |-> CATERVA_ERR_INVALID_INDEX,
          array |-> [array EXCEPT !.chunkshape =
                        Compact(array.chunkshape, KeptAxes(array.ndim, index))],
          sc    |-> schunk]
    ELSE
    LET kept  == KeptAxes(array.ndim, index)
    IN  caterva_blosc_update_shape(array, schunk, Len(kept), Compact(array.shape, kept),
                                   Compact(array.chunkshape, kept),
                                   Compact(array.blockshape, kept), h, fill)

caterva_blosc_array_squeeze_index(array, schunk, index, h, fill) ==
    IF \E i \in 0..(array.ndim - 1) : index[i] /\ array.shape[i] # 1
    THEN [rc |-> CATERVA_ERR_INVALID_INDEX, array |-> array, sc |-> schunk]
    ELSE
    LET kept  == KeptAxes(array.ndim, index)
        nones == Len(kept)
        a1    == [array EXCEPT !.chunkshape = Compact(array.chunkshape, kept),
                               !.blockshape = Compact(array.blockshape, kept)]
    IN  caterva_blosc_update_shape(a1, schunk, nones, Compact(array.shape, kept),
                                   Compact(array.chunkshape, kept),
                                   Compact(array.blockshape, kept), h, fill)

caterva_blosc_array_squeeze(array, schunk, h, fill) ==
    caterva_blosc_array_squeeze_index(
        array, schunk, [i \in Dims |-> i < array.ndim /\ array.shape[i] = 1], h, fill)

\* ------------------------------------------------------------------------
\* Array to array: get_slice and copy
\* ------------------------------------------------------------------------

\* the backend calls that fail: the chunks of the source whose decompression
\* is refused and the chunks of the destination whose append is refused
NoFaults == [read |-> {}, append |-> {}]

\* the shape of the selection start..stop
Extent(ndim, start, stop) ==
    Array([i \in Dims |-> IF i < ndim THEN stop[i] - start[i] ELSE 1])

\* caterva_get_slice_buffer, the dispatcher over
\* caterva_blosc_array_get_slice_buffer
caterva_get_slice_buffer(array, schunk, start, stop, shape, buffer, buffersize, faults) ==
    caterva_blosc_array_get_slice_buffer(array, schunk, start, stop, shape, buffer, faults)

\* d_shape[i]: the chunks to append along axis i
SliceGridShape(d_start, d_stop, d_next_pshape) ==
    Array([i \in Dims |->
              IF d_next_pshape[i] # 0
              THEN CDiv(d_stop[i] - d_start[i], d_next_pshape[i])
                   + (IF CMod(d_stop[i] - d_start[i], d_next_pshape[i]) # 0
                      THEN 1 ELSE 0)
              ELSE 0])

\* the right-aligned arrays of get_slice: the vectors are padded by the
\* ndim of src and aligned by the ndim of the destination
SliceGrid(src, start, stop, array) ==
    [d_ndim        |-> array.ndim,
     s_ndim        |-> src.ndim,
     d_pshape      |-> RightAlign(Padded(array.chunkshape, src.ndim, 1), array.ndim),
     d_start       |-> RightAlign(Padded(start, src.ndim, 0), array.ndim),
     d_stop        |-> RightAlign(Padded(stop, src.ndim, 1), array.ndim),
     d_next_pshape |-> RightAlign(Padded(array.next_chunkshape, src.ndim, 1),
                                  array.ndim),
     d_shape       |-> SliceGridShape(
                           RightAlign(Padded(start, src.ndim, 0), array.ndim),
                           RightAlign(Padded(stop, src.ndim, 1), array.ndim),
                           RightAlign(Padded(array.next_chunkshape, src.ndim, 1),
                                      array.ndim))]

\* jj: the end of the chunk that begins at ii, cut at d_stop
SliceChunkStop(ii, d_next_pshape, g) ==
    Array([i \in Dims |->
              IF ii[i] + d_next_pshape[i] > g.d_stop[i] THEN g.d_stop[i]
              ELSE ii[i] + d_next_pshape[i]])

\* start_, stop_ and d_pshape_ of the request for the chunk that begins at ii
SliceChunkRange(ii, d_next_pshape, g) ==
    [start_    |-> LeftAlign(ii, g.d_ndim),
     stop_     |-> LeftAlign(SliceChunkStop(ii, d_next_pshape, g), g.d_ndim),
     d_pshape_ |-> LeftAlign(d_next_pshape, g.d_ndim)]

\* SliceChunkOrigin without the move by d_start
SliceChunkOrigin_unmoved(chunk_ind, g) ==
    LET idx == index_unidim_to_multidim(CATERVA_MAX_DIM, g.d_shape, chunk_ind)
    IN  Array([j \in Dims |-> idx[j] * g.d_pshape[j]])

\* ii of the chunk of index chunk_ind: its place in d_shape, scaled by
\* d_pshape and moved by d_start
SliceChunkOrigin(chunk_ind, g) ==
    LET idx == index_unidim_to_multidim(CATERVA_MAX_DIM, g.d_shape, chunk_ind)
    IN  Array([j \in Dims |-> idx[j] * g.d_pshape[j] + g.d_start[j]])

\* d_next_pshape after an append: the entries of the axes of src are read
\* again from next_chunkshape
NextSliceShape(d_next_pshape, array, g) ==
    Array([k \in Dims |->
              IF \E i \in 0..(g.s_ndim - 1) :
                     (CATERVA_MAX_DIM - g.d_ndim + i) % CATERVA_MAX_DIM = k
              THEN array.next_chunkshape[
                       CHOOSE i \in 0..(g.s_ndim - 1) :
                           (CATERVA_MAX_DIM - g.d_ndim + i) % CATERVA_MAX_DIM = k]
              ELSE d_next_pshape[k]])

\* the read into the zeroed chunk buffer
SliceRead(st, r, ssc, faults) ==
    caterva_get_slice_buffer(st.src, ssc, r.start_, r.stop_, r.d_pshape_,
        Zeros(st.array.chunknitems * st.src.itemsize),
        st.array.next_chunknitems * st.src.itemsize, faults.read)

\* the calls get_slice makes, as its trace records them
ReadCall(r) ==
    [op |-> "get_slice_buffer", start |-> r.start_, stop |-> r.stop_,
     shape |-> r.d_pshape_]

AppendCall(chunksize) ==
    [op |-> "append", chunksize |-> chunksize]

\* the append of the chunk just read; either call failing ends get_slice
\* at once, with the chunk buffer of get_slice not released
SliceAppend(st, rd, ap, g) ==
    IF rd.rc # CATERVA_SUCCEED
    THEN [st EXCEPT !.rc = rd.rc, !.src = rd.array,
                    !.live = {"chunk"} \cup rd.live]
    ELSE IF ap.rc # CATERVA_SUCCEED
    THEN [st EXCEPT !.rc = ap.rc, !.src = rd.array, !.array = ap.array, !.sc = ap.sc,
                    !.live = {"chunk"} \cup ap.live,
                    !.trace = Append(@, AppendCall(st.array.next_chunknitems
                                                   * st.src.itemsize))]
    ELSE [chunk_ind     |-> st.chunk_ind + 1,
          rc            |-> CATERVA_SUCCEED,
          src           |-> rd.array,
          array         |-> ap.array,
          sc            |-> ap.sc,
          live          |-> {},
          trace         |-> Append(st.trace,
                                   AppendCall(st.array.next_chunknitems
                                              * st.src.itemsize)),
          d_next_pshape |-> NextSliceShape(st.d_next_pshape, ap.array, g)]

SliceWrite(st, rd, g, faults) ==
    Only({ SliceAppend(st, rd, ap, g) :
               ap \in { caterva_append(st.array, st.sc, rd.buffer,
                             st.array.next_chunknitems * st.src.itemsize,
                             Len(st.sc.chunks) \in faults.append) } })

\* the read of the range r, then the append
SliceChunkAt(st, r, g, ssc, faults) ==
    Only({ SliceWrite([st EXCEPT !.trace = Append(@, ReadCall(r))], rd, g, faults) :
               rd \in { SliceRead(st, r, ssc, faults) } })

\* the body of "for (chunk_ind = 0; chunk_ind < nchunks; ++chunk_ind)"
SliceChunk(st, g, ssc, faults) ==
    Only({ SliceChunkAt(st, r, g, ssc, faults) :
               r \in { SliceChunkRange(SliceChunkOrigin(st.chunk_ind, g),
                                       st.d_next_pshape, g) } })

\* the loop of get_slice over the chunks of the grid g, from the turn st
RECURSIVE SliceLoop(_, _, _, _, _)
SliceLoop(st, nchunks, g, ssc, faults) ==
    IF st.chunk_ind >= nchunks \/ st.rc # CATERVA_SUCCEED THEN st
    ELSE Only({ SliceLoop(nx, nchunks, g, ssc, faults) :
                    nx \in { SliceChunk(st, g, ssc, faults) } })

SliceResult(done) ==
    [rc |-> done.rc, src |-> done.src, dest |-> done.array, dsc |-> done.sc,
     live |-> done.live, trace |-> done.trace]

\* array is the destination, schunk its super-chunk; ssc that of src
caterva_blosc_array_get_slice(src, ssc, start, stop, array, schunk, faults) ==
    Only({ SliceResult(SliceLoop([chunk_ind |-> 0, rc |-> CATERVA_SUCCEED,
                                  src |-> src, array |-> array, sc |-> schunk,
                                  live |-> {}, trace |-> << >>,
                                  d_next_pshape |-> g.d_next_pshape],
                                 Prod(g.d_shape, 0, CATERVA_MAX_DIM - 1),
                                 g, ssc, faults)) :
               g \in { SliceGrid(src, start, stop, array) } })

\* the slice into the array just created, or the failure of its creation
SliceInto(e, src, ssc, start, stop, faults) ==
    IF e.rc # CATERVA_SUCCEED
    THEN [rc |-> e.rc, src |-> src, dest |-> NoValue, dsc |-> NoValue, live |-> {},
          trace |-> << >>]
    ELSE caterva_blosc_array_get_slice(src, ssc, start, stop, e.array, e.sc, faults)

\* caterva_get_slice, the dispatcher over caterva_blosc_array_get_slice: the
\* destination is created empty with the shape of the selection
caterva_get_slice(src, ssc, start, stop, storage, h, fill, faults) ==
    Only({ SliceInto(e, src, ssc, start, stop, faults) :
               e \in { caterva_empty([ndim |-> src.ndim, itemsize |-> src.itemsize,
                                      shape |-> Extent(src.ndim, start, stop)],
                                     storage, h, fill) } })

\* blosc2_schunk_copy: the chunks and the metalayer of schunk
blosc2_schunk_copy(schunk) ==
    schunk

\* the destination of the clone path: the empty array over the copied
\* super-chunk; the flags written are those of src
CopyClone(e, src, ssc) ==
    IF e.rc # CATERVA_SUCCEED
    THEN [rc |-> e.rc, src |-> src, dest |-> NoValue, dsc |-> NoValue, live |-> {}]
    ELSE [rc   |-> CATERVA_SUCCEED,
          src  |-> With(src, [empty |-> FALSE, filled |-> TRUE]),
          dest |-> e.array,
          dsc  |-> blosc2_schunk_copy(ssc),
          live |-> {}]

caterva_blosc_array_copy(cparams, storage, src, ssc, h, fill, faults) ==
    IF /\ src.storage # "PLAINBUFFER"
       /\ \A i \in 0..(src.ndim - 1) :
             /\ src.chunkshape[i] = storage.chunkshape[i]
             /\ src.blockshape[i] = storage.blockshape[i]
    THEN Only({ CopyClone(e, src, ssc) :
                    e \in { caterva_empty(cparams, storage, h, fill) } })
    ELSE Only({ caterva_get_slice(src, ssc, start, stop, storage, h, fill, faults) :
                    start \in { Array([i \in Dims |-> 0]) },
                    stop \in { Padded(src.shape, src.ndim, 0) } })

\* ------------------------------------------------------------------------
\* The codec on its own: a caller serializes a geometry and reads it back
\* ------------------------------------------------------------------------

Hosts == {"little", "big"}

\* contents malloc may hand back for a block nobody wrote: zeros, ones, and
\* a small number left there big-endian
Fillers == {<<0, 0>>, <<255, 255>>, <<0, 2>>}

Fills == [1..3 -> Fillers]

ShapeVals == {0, 1000, 16909060}

ChunkVals == {100, 67305985}

BlockVals == {10, -2}

\* a vector whose entries alternate between a and b
Alternate(a, b) ==
    [i \in Dims |-> IF i % 2 = 0 THEN a ELSE b]

MetaInputs ==
    { [ndim |-> n, shape |-> Alternate(a, b),
       chunkshape |-> Alternate(c, c + 100), blockshape |-> Alternate(e, e + 10)] :
        n \in 1..CATERVA_MAX_DIM, a \in ShapeVals, b \in {2000},
        c \in ChunkVals, e \in BlockVals }

InitMeta ==
    /\ host \in Hosts
    /\ params \in MetaInputs
    /\ smeta = NoValue
    /\ dmeta = NoValue
    /\ arr = NoValue
    /\ sc = NoValue
    /\ result = NoValue
    /\ lastcall = NoValue
    /\ hist = NoValue
    /\ copied = NoValue

SerializeMeta ==
    /\ smeta = NoValue
    /\ \E fill \in Fills :
         smeta' = serialize_meta(params.ndim, params.shape, params.chunkshape,
                                 params.blockshape, host, fill)
    /\ UNCHANGED <<host, params, dmeta, array_vars>>

DeserializeMeta ==
    /\ smeta # NoValue
    /\ dmeta = NoValue
    /\ \E fill \in Fills :
         dmeta' = deserialize_meta(smeta.smeta, smeta.slen, host, fill)
    /\ UNCHANGED <<host, params, smeta, array_vars>>

NextMeta ==
    \/ SerializeMeta
    \/ DeserializeMeta

SpecMeta == InitMeta /\ [][NextMeta]_vars

\* ------------------------------------------------------------------------
\* The array: a caller creates it, fills it, reads it, squeezes it, reopens it
\* ------------------------------------------------------------------------

MaxNdim == 3

MaxExtent == 4

MaxItems == 8

MaxItemsize == 2

MaxSliceNdim == 2

\* the blocks of a call of serialize_meta hold the same bytes
ArrayFills == { [i \in 1..3 |-> f] : f \in Fillers }

\* a little-endian host overwrites every block it allocates
FillsOn(h) ==
    IF h = "little" THEN { [i \in 1..3 |-> <<0, 0>>] } ELSE ArrayFills

\* the blocks of a call of deserialize_meta
ReadFillsOn(h) ==
    IF h = "little" THEN { [i \in 1..3 |-> <<0, 0>>] } ELSE Fills

\* results of a remainder or a division by zero
UBVals == {0, -1}

Vec(n, f) ==
    Array([i \in Dims |-> IF i < n THEN f[i] ELSE 1])

\* shape, chunkshape and blockshape of n axes: extents of 1 to extent
\* items, chunks no longer than the axis, blocks no longer than the chunk,
\* and at most items items in the padded array
GeomsOf(n, extent, items) ==
    LET Axes == 0..(n - 1)
        Extents == [Axes -> 1..extent]
        Fits(sh, cs) ==
            Prod([i \in Axes |-> ExtShapeAt(sh[i], cs[i], 0)], 0, n - 1) <= items
        Parts(of) == { x \in Extents : \A i \in Axes : x[i] <= of[i] }
    IN  UNION { UNION { { [ndim |-> n, shape |-> Vec(n, sh),
                           chunkshape |-> Vec(n, cs), blockshape |-> Vec(n, bs)] :
                            bs \in Parts(cs) } :
                        cs \in { x \in Parts(sh) : Fits(sh, x) } } :
                sh \in Extents }

Geoms ==
    UNION { GeomsOf(n, MaxExtent, MaxItems) : n \in 1..MaxNdim }

\* the geometry an array can be used with: what the argument checks of the
\* entry points let through
WellFormed(a) ==
    /\ a.ndim \in 0..CATERVA_MAX_DIM
    /\ \A i \in 0..(a.ndim - 1) :
          /\ a.shape[i] >= 0
          /\ a.chunkshape[i] >= 1
          /\ a.blockshape[i] >= 1
          /\ a.blockshape[i] <= a.chunkshape[i]

\* the dense buffer the caller writes: byte k holds k + 1, so that every
\* byte differs from every other and from the zero of the padding
Pattern(nbytes) ==
    [k \in 0..(nbytes - 1) |-> k + 1]

NoHist == [fill |-> "none", faulted |-> FALSE, opened |-> FALSE,
           squeezed |-> FALSE, copies |-> 0]

\* an array opened on a big-endian host has the geometry of unwritten
\* memory; no further operation is followed on it.  The caller frees a copy
\* before the next call.
Usable ==
    /\ arr # NoValue
    /\ copied = NoValue
    /\ ~(hist.opened /\ host = "big")
    /\ WellFormed(arr)

\* the array is written to, squeezed and copied before it is opened again,
\* and squeezed once
Fresh ==
    ~hist.opened /\ ~hist.squeezed

\* the caller reads a filled array before it squeezes it
ReadFirst ==
    arr.filled <=> (result # NoValue /\ result.op = "to_buffer")

\* the dense contents never pass through swap_store, the one place where the
\* host matters: the arrays are filled and read on a little-endian host
Init ==
    /\ host = "little"
    /\ params = NoValue
    /\ smeta = NoValue
    /\ dmeta = NoValue
    /\ arr = NoValue
    /\ sc = NoValue
    /\ result = NoValue
    /\ lastcall = NoValue
    /\ hist = NoHist
    /\ copied = NoValue

EmptyOf(G) ==
    /\ arr = NoValue
    /\ \E g \in G, fill \in FillsOn(host) :
         LET r == caterva_empty([ndim |-> g.ndim, itemsize |-> MaxItemsize,
                                 shape |-> g.shape],
                                [chunkshape |-> g.chunkshape,
                                 blockshape |-> g.blockshape], host, fill)
         IN  /\ r.rc = CATERVA_SUCCEED
             /\ arr' = r.array
             /\ sc' = r.sc
             /\ lastcall' = [op |-> "empty", rc |-> r.rc]
    /\ UNCHANGED <<host, codec_vars, result, hist, copied>>

Empty ==
    EmptyOf(Geoms)

FromBuffer ==
    /\ Usable /\ result = NoValue
    /\ hist.fill = "none" /\ Fresh /\ ~arr.filled
    /\ LET r == caterva_blosc_array_from_buffer(
                     arr, sc, Pattern(arr.nitems * arr.itemsize), {})
       IN  /\ arr' = r.array
           /\ sc' = r.sc
           /\ lastcall' = [op |-> "from_buffer", rc |-> r.rc]
           /\ hist' = [hist EXCEPT !.fill = "from_buffer"]
    /\ UNCHANGED <<host, codec_vars, result, copied>>

ToBuffer ==
    /\ Usable /\ result = NoValue
    /\ arr.filled
    /\ LET r == caterva_blosc_array_to_buffer(
                     arr, sc, Alloc(arr.nitems * arr.itemsize), {})
       IN  /\ result' = [op |-> "to_buffer", rc |-> r.rc, buffer |-> r.buffer]
           /\ arr' = r.array
    /\ UNCHANGED <<host, codec_vars, sc, lastcall, hist, copied>>

\* the starts and the stops a caller may select array a with
Starts(a) ==
    { Vec(a.ndim, s) : s \in { x \in [0..(a.ndim - 1) -> 0..MaxExtent] :
                                 \A i \in 0..(a.ndim - 1) : x[i] <= a.shape[i] } }

Stops(a, start) ==
    { Vec(a.ndim, e) : e \in { x \in [0..(a.ndim - 1) -> 0..MaxExtent] :
                                 \A i \in 0..(a.ndim - 1) :
                                     start[i] <= x[i] /\ x[i] <= a.shape[i] } }

GetSliceBuffer ==
    /\ Usable /\ result = NoValue
    /\ arr.filled
    /\ arr.ndim <= MaxSliceNdim
    /\ \E start \in Starts(arr) : \E stop \in Stops(arr, start) :
         LET shape == Extent(arr.ndim, start, stop)
             r == caterva_blosc_array_get_slice_buffer(
                      arr, sc, start, stop, shape,
                      Alloc(Prod(shape, 0, arr.ndim - 1) * arr.itemsize), {})
         IN  /\ result' = [op |-> "get_slice_buffer", rc |-> r.rc,
                           buffer |-> r.buffer, start |-> start, stop |-> stop]
             /\ arr' = r.array
    /\ UNCHANGED <<host, codec_vars, sc, lastcall, hist, copied>>

\* the caller is done with the destination buffer
Release ==
    /\ result # NoValue
    /\ result' = NoValue
    /\ UNCHANGED <<host, codec_vars, arr, sc, lastcall, hist, copied>>

Next ==
    \/ Empty
    \/ FromBuffer
    \/ ToBuffer
    \/ GetSliceBuffer
    \/ Release

Spec == Init /\ [][Next]_vars

\* ------------------------------------------------------------------------
\* The array through its life: created, filled chunk by chunk or at once,
\* reopened from its super-chunk, squeezed, copied, read
\* ------------------------------------------------------------------------

MaxLifeExtent == 2

MaxLifeItems == 4

LifeGeoms ==
    UNION { GeomsOf(n, MaxLifeExtent, MaxLifeItems) : n \in 1..MaxNdim }

\* what a squeeze leaves behind for the claims: the array and the
\* super-chunk before the call, and the dense buffer read before it if the
\* caller still holds one
Squeezed(op, rc) ==
    [op     |-> op,
     rc     |-> rc,
     before |-> [arr |-> arr, sc |-> sc],
     dense  |-> IF result # NoValue /\ result.op = "to_buffer"
                THEN result.buffer ELSE NoValue]

InitLife ==
    /\ host = "little"
    /\ params = NoValue
    /\ smeta = NoValue
    /\ dmeta = NoValue
    /\ arr = NoValue
    /\ sc = NoValue
    /\ result = NoValue
    /\ lastcall = NoValue
    /\ hist = NoHist
    /\ copied = NoValue

Create ==
    EmptyOf(LifeGeoms)

\* byte k of the short chunk of array a: the cells of next_chunkshape, row
\* by row, taken from the chunk full of chunkshape
ShortChunkByte(full, a, k) ==
    full[Weighted(index_unidim_to_multidim(CATERVA_MAX_DIM,
                      RightAlign(a.next_chunkshape, a.ndim), k \div a.itemsize),
                  RightAlign(a.chunkshape, a.ndim), 0, CATERVA_MAX_DIM - 1)
         * a.itemsize + (k % a.itemsize)]

\* the chunk the caller appends to array a next, as chunk number n of the
\* dense buffer: the full chunk, zero padded, or when short is asked for
\* the cells of next_chunkshape alone
ChunkToAppend(a, n, short) ==
    LET f == [d_shape  |-> RightAlign(a.shape, a.ndim),
              d_eshape |-> RightAlign(a.extshape, a.ndim),
              d_pshape |-> RightAlign(a.chunkshape, a.ndim)]
        full == ChunkOfBuffer(a, Pattern(a.nitems * a.itemsize), n, f)
    IN  IF short
        THEN Array([k \in 0..(a.next_chunknitems * a.itemsize - 1) |->
                        ShortChunkByte(full, a, k)])
        ELSE full

NextChunk(short) ==
    ChunkToAppend(arr, Len(sc.chunks), short)

AppendChunk ==
    /\ Usable /\ result = NoValue
    /\ Fresh
    /\ hist.fill \in {"none", "append"}
    /\ ~arr.filled
    /\ \E short \in BOOLEAN :
         LET chunk == NextChunk(short)
             r == caterva_append(arr, sc, chunk, Cardinality(DOMAIN chunk), FALSE)
         IN  /\ arr' = r.array
             /\ sc' = r.sc
             /\ lastcall' = [op |-> "append", rc |-> r.rc]
             /\ hist' = [hist EXCEPT !.fill = "append"]
    /\ UNCHANGED <<host, codec_vars, result, copied>>

\* the caller opens the super-chunk of the array again
Open ==
    /\ Usable /\ result = NoValue
    /\ ~hist.opened
    /\ \E fill \in ReadFillsOn(host), ub \in UBVals, u \in UBVals :
         LET r == caterva_blosc_from_schunk(sc, host, fill, ub, u)
         IN  /\ r.rc = CATERVA_SUCCEED
             /\ arr' = r.array
             /\ lastcall' = [op |-> "open", rc |-> r.rc]
             /\ hist' = [hist EXCEPT !.opened = TRUE]
    /\ UNCHANGED <<host, codec_vars, sc, result, copied>>

Squeeze ==
    /\ Usable /\ Fresh /\ ReadFirst
    /\ \E fill \in FillsOn(host) :
         LET r == caterva_blosc_array_squeeze(arr, sc, host, fill)
         IN  /\ arr' = r.array
             /\ sc' = r.sc
             /\ lastcall' = Squeezed("squeeze", r.rc)
    /\ result' = NoValue
    /\ hist' = [hist EXCEPT !.squeezed = TRUE]
    /\ UNCHANGED <<host, codec_vars, copied>>

\* the masks a caller may hand to squeeze_index
Masks(ndim) ==
    { Array([i \in Dims |-> i \in s]) : s \in SUBSET (0..(ndim - 1)) }

SqueezeIndex ==
    /\ Usable /\ Fresh /\ ReadFirst
    /\ \E index \in Masks(arr.ndim), fill \in FillsOn(host) :
         LET r == caterva_blosc_array_squeeze_index(arr, sc, index, host, fill)
         IN  /\ arr' = r.array
             /\ sc' = r.sc
             /\ lastcall' = Squeezed("squeeze_index", r.rc)
    /\ result' = NoValue
    /\ hist' = [hist EXCEPT !.squeezed = TRUE]
    /\ UNCHANGED <<host, codec_vars, copied>>

\* the storages a caller may copy array a into: its own chunks and blocks,
\* one chunk of one block for the whole array, chunks and blocks of one item
Storages(a) ==
    { [chunkshape |-> a.chunkshape, blockshape |-> a.blockshape],
      [chunkshape |-> Vec(a.ndim, a.shape), blockshape |-> Vec(a.ndim, a.shape)],
      [chunkshape |-> Vec(a.ndim, [i \in Dims |-> 1]),
       blockshape |-> Vec(a.ndim, [i \in Dims |-> 1])] }

Copy ==
    /\ Usable /\ result = NoValue
    /\ Fresh /\ hist.copies = 0
    /\ \E storage \in Storages(arr), fill \in FillsOn(host) :
         LET r == caterva_blosc_array_copy(
                      [ndim |-> arr.ndim, itemsize |-> arr.itemsize,
                       shape |-> arr.shape],
                      storage, arr, sc, host, fill, NoFaults)
         IN  /\ arr' = r.src
             /\ copied' = [rc |-> r.rc, array |-> r.dest, sc |-> r.dsc]
             /\ lastcall' = [op |-> "copy", rc |-> r.rc]
    /\ hist' = [hist EXCEPT !.copies = 1]
    /\ UNCHANGED <<host, codec_vars, sc, result>>

\* the caller frees the copy
Drop ==
    /\ copied # NoValue
    /\ copied' = NoValue
    /\ UNCHANGED <<host, codec_vars, arr, sc, result, lastcall, hist>>

NextLife ==
    \/ Create
    \/ FromBuffer
    \/ AppendChunk
    \/ Open
    \/ Squeeze
    \/ SqueezeIndex
    \/ Copy
    \/ Drop
    \/ ToBuffer
    \/ Release

SpecLife == InitLife /\ [][NextLife]_vars

\* the array created and opened again on either host
InitOpen ==
    /\ host \in Hosts
    /\ params = NoValue
    /\ smeta = NoValue
    /\ dmeta = NoValue
    /\ arr = NoValue
    /\ sc = NoValue
    /\ result = NoValue
    /\ lastcall = NoValue
    /\ hist = NoHist
    /\ copied = NoValue

NextOpen ==
    \/ Create
    \/ Open

SpecOpen == InitOpen /\ [][NextOpen]_vars

\* ------------------------------------------------------------------------
\* Super-chunks written by a later version of the format
\* ------------------------------------------------------------------------

\* the highest version byte a stored blob carries
MaxVersion == 2

\* the blob of schunk with version byte v
WithVersion(schunk, v) ==
    [schunk EXCEPT !.meta = [@ EXCEPT ![2] = v]]

\* the super-chunk comes from a writer of version v of the format
StoreVersion ==
    /\ arr # NoValue /\ ~hist.opened
    /\ lastcall.op = "empty"
    /\ \E v \in 1..MaxVersion :
         /\ sc' = WithVersion(sc, v)
         /\ lastcall' = [op |-> "store", rc |-> CATERVA_SUCCEED, version |-> v]
    /\ UNCHANGED <<host, codec_vars, arr, result, hist, copied>>

\* the result of from_schunk in a build: with NDEBUG the asserts are
\* compiled out, without it a failed assert ends the process and nothing
\* is returned
OpenIn(ndebug, r) ==
    IF ~ndebug /\ ~r.asserts
    THEN [rc |-> "ABORTED", array |-> NoValue]
    ELSE [rc |-> r.rc, array |-> r.array]

\* the caller opens the super-chunk, whatever the version of its blob
OpenStored ==
    /\ arr # NoValue /\ ~hist.opened
    /\ \E ndebug \in BOOLEAN, u \in UBVals :
         LET r == OpenIn(ndebug, caterva_blosc_from_schunk(
                                     sc, host, Only(ReadFillsOn(host)), 0, u))
         IN  /\ arr' = IF r.array = NoValue THEN arr ELSE r.array
             /\ lastcall' = [op |-> "open", rc |-> r.rc, ndebug |-> ndebug,
                             version |-> Byte(sc.meta, 1),
                             array |-> r.array]
    /\ hist' = [hist EXCEPT !.opened = TRUE]
    /\ UNCHANGED <<host, codec_vars, sc, result, copied>>

NextVersion ==
    \/ Create
    \/ StoreVersion
    \/ OpenStored

SpecVersion == InitLife /\ [][NextVersion]_vars

\* ------------------------------------------------------------------------
\* Writes and reads against a backend that may refuse a call
\* ------------------------------------------------------------------------

MaxWriteNdim == 2

MaxWriteExtent == 3

MaxWriteItems == 8

\* geometries with trailing-edge chunks on either axis
WriteGeoms ==
    UNION { GeomsOf(n, MaxWriteExtent, MaxWriteItems) : n \in 1..MaxWriteNdim }

CreateForWrite ==
    EmptyOf(WriteGeoms)

\* the caller appends the next chunk, full or short; the backend may refuse
\* it, once in the life of the array
WriteChunk ==
    /\ Usable /\ result = NoValue
    /\ hist.fill \in {"none", "append"}
    /\ ~arr.filled
    /\ \E short \in BOOLEAN, fault \in {FALSE} \cup {~hist.faulted} :
         LET chunk == NextChunk(short)
             r == caterva_append(arr, sc, chunk, Cardinality(DOMAIN chunk), fault)
         IN  /\ arr' = r.array
             /\ sc' = r.sc
             /\ lastcall' = [op |-> "append", rc |-> r.rc, short |-> short,
                             fault |-> fault, live |-> r.live,
                             before |-> [arr |-> arr, sc |-> sc]]
             /\ hist' = [hist EXCEPT !.fill = "append",
                                     !.faulted = @ \/ fault]
    /\ UNCHANGED <<host, codec_vars, result, copied>>

\* the chunks the backend may refuse in one call: none or one of them
FaultsOf(chunks) ==
    {{}} \cup { {c} : c \in chunks }

\* the caller fills the new array from the dense buffer
WriteBuffer ==
    /\ Usable /\ result = NoValue
    /\ hist.fill = "none" /\ ~arr.filled
    /\ \E faults \in FaultsOf(0..(CDiv(arr.extnitems, arr.chunknitems) - 1)) :
         LET r == caterva_blosc_array_from_buffer(
                      arr, sc, Pattern(arr.nitems * arr.itemsize), faults)
         IN  /\ arr' = r.array
             /\ sc' = r.sc
             /\ lastcall' = [op |-> "from_buffer", rc |-> r.rc, faults |-> faults,
                             live |-> r.live,
                             before |-> [arr |-> arr, sc |-> sc]]
             /\ hist' = [hist EXCEPT !.fill = "from_buffer",
                                     !.faulted = (faults # {})]
    /\ UNCHANGED <<host, codec_vars, result, copied>>

\* the array was filled at once and holds every chunk it counts
Complete ==
    /\ hist.fill = "from_buffer"
    /\ arr.filled
    /\ arr.nchunks = Len(sc.chunks)
    /\ Len(sc.chunks) = CDiv(arr.extnitems, arr.chunknitems)

\* the chunk numbers get_slice_buffer asks the backend for
ChunksRead(array, start, stop, shape) ==
    IF /\ array.ndim = 1
       /\ array.chunkshape[0] = shape[0]
       /\ array.chunkshape[0] = array.blockshape[0]
       /\ CMod(start[0], array.chunkshape[0]) = 0
       /\ CMod(stop[0], array.chunkshape[0]) = 0
    THEN { CDiv(start[0], array.chunkshape[0]) }
    ELSE LET f == SliceChunks(SliceArrays(array, start, stop, shape), array.ndim)
         IN  { ChunkBlocks(MultiIndexFrom(f.i_shape, k, f.i_start), f).nchunk :
                   k \in 0..(Prod(f.i_shape, 0, CATERVA_MAX_DIM - 1) - 1) }

\* the caller reads the whole array; the backend may refuse one chunk
ReadBuffer ==
    /\ Usable /\ result = NoValue
    /\ Complete
    /\ \E faults \in FaultsOf(0..(Len(sc.chunks) - 1)) :
         LET r == caterva_blosc_array_to_buffer(
                      arr, sc, Alloc(arr.nitems * arr.itemsize), faults)
         IN  /\ result' = [op |-> "to_buffer", rc |-> r.rc, buffer |-> r.buffer,
                           faults |-> faults, live |-> r.live,
                           read |-> ChunksRead(arr, Array([i \in Dims |-> 0]),
                                               arr.shape, arr.shape)]
             /\ arr' = r.array
    /\ UNCHANGED <<host, codec_vars, sc, lastcall, hist, copied>>

\* the caller reads a selection of some item on every axis; the backend
\* refuses one of the chunks
ReadSlice ==
    /\ Usable /\ result = NoValue
    /\ Complete
    /\ \E start \in Starts(arr) : \E stop \in Stops(arr, start) :
       \E faults \in FaultsOf(0..(Len(sc.chunks) - 1)) \ {{}} :
         LET shape == Extent(arr.ndim, start, stop)
             r == caterva_blosc_array_get_slice_buffer(
                      arr, sc, start, stop, shape,
                      Alloc(Prod(shape, 0, arr.ndim - 1) * arr.itemsize), faults)
         IN  /\ \A i \in 0..(arr.ndim - 1) : start[i] < stop[i]
             /\ result' = [op |-> "get_slice_buffer", rc |-> r.rc,
                           buffer |-> r.buffer, faults |-> faults, live |-> r.live,
                           read |-> ChunksRead(arr, start, stop, shape)]
             /\ arr' = r.array
    /\ UNCHANGED <<host, codec_vars, sc, lastcall, hist, copied>>

NextWrite ==
    \/ CreateForWrite
    \/ WriteChunk
    \/ WriteBuffer
    \/ ReadBuffer
    \/ ReadSlice
    \/ Release

SpecWrite == InitLife /\ [][NextWrite]_vars

\* ------------------------------------------------------------------------
\* Reads through the chunk cache
\* ------------------------------------------------------------------------

MaxCacheItems == 4

CacheGeoms ==
    UNION { GeomsOf(n, MaxWriteExtent, MaxCacheItems) : n \in 1..MaxWriteNdim }

CreateForCache ==
    EmptyOf(CacheGeoms)

\* the caller gives the filled array a cache slot: a buffer of one padded
\* chunk nobody wrote yet
InstallCache ==
    /\ Usable /\ result = NoValue
    /\ arr.filled
    /\ arr.chunk_cache.data = NoValue
    /\ arr' = [arr EXCEPT !.chunk_cache =
                   [data   |-> Alloc(arr.extchunknitems * arr.itemsize),
                    nchunk |-> -1]]
    /\ lastcall' = [op |-> "install_cache", rc |-> CATERVA_SUCCEED]
    /\ UNCHANGED <<host, codec_vars, sc, result, hist, copied>>

\* the caller reads a selection through the cache; plain is what the same
\* call does on the array without its cache slot
ReadCached ==
    /\ Usable /\ result = NoValue
    /\ arr.filled
    /\ arr.chunk_cache.data # NoValue
    /\ \E start \in Starts(arr) : \E stop \in Stops(arr, start) :
         LET shape == Extent(arr.ndim, start, stop)
             dest  == Alloc(Prod(shape, 0, arr.ndim - 1) * arr.itemsize)
             r == caterva_blosc_array_get_slice_buffer(
                      arr, sc, start, stop, shape, dest, {})
             p == caterva_blosc_array_get_slice_buffer(
                      [arr EXCEPT !.chunk_cache = NullCache],
                      sc, start, stop, shape, dest, {})
         IN  /\ \A i \in 0..(arr.ndim - 1) : start[i] < stop[i]
             /\ result' = [op |-> "get_slice_buffer", rc |-> r.rc,
                           buffer |-> r.buffer,
                           cached |-> arr.chunk_cache,
                           plain  |-> [rc |-> p.rc, buffer |-> p.buffer]]
             /\ arr' = r.array
    /\ UNCHANGED <<host, codec_vars, sc, lastcall, hist, copied>>

NextCache ==
    \/ CreateForCache
    \/ FromBuffer
    \/ InstallCache
    \/ ReadCached
    \/ Release

SpecCache == InitLife /\ [][NextCache]_vars

\* ------------------------------------------------------------------------
\* A selection of one array written into a new array
\* ------------------------------------------------------------------------

MaxSliceItems == 6

\* the arrays selected from: one block per chunk
SliceGeoms ==
    { g \in UNION { GeomsOf(n, MaxWriteExtent, MaxSliceItems) :
                       n \in 1..MaxWriteNdim } :
          g.blockshape = g.chunkshape }

CreateForSlice ==
    EmptyOf(SliceGeoms)

\* the chunks and blocks a caller may ask for an array of the shape given:
\* on every axis a chunk no longer than the axis and the block of the whole
\* chunk or of one item
StoragesOf(ndim, shape) ==
    { [chunkshape |-> Vec(ndim, cs), blockshape |-> Vec(ndim, bs)] :
          cs \in { x \in [0..(ndim - 1) -> 1..MaxWriteExtent] :
                      \A i \in 0..(ndim - 1) : x[i] <= shape[i] },
          bs \in { x \in [0..(ndim - 1) -> 1..MaxWriteExtent] :
                      \/ \A i \in 0..(ndim - 1) : x[i] = 1
                      \/ \A i \in 0..(ndim - 1) : x[i] = 2 } }

\* the caller selects start..stop, of some item on every axis, into a new
\* array of the storage it asks for
GetSlice ==
    /\ Usable /\ result = NoValue
    /\ arr.filled
    /\ \E start \in Starts(arr) : \E stop \in Stops(arr, start) :
       \E storage \in StoragesOf(arr.ndim, Extent(arr.ndim, start, stop)) :
         LET r == caterva_get_slice(arr, sc, start, stop, storage, host,
                                    Only(FillsOn(host)), NoFaults)
         IN  /\ \A i \in 0..(arr.ndim - 1) :
                   /\ start[i] < stop[i]
                   /\ storage.blockshape[i] <= storage.chunkshape[i]
             /\ arr' = r.src
             /\ copied' = [rc |-> r.rc, array |-> r.dest, sc |-> r.dsc,
                           trace |-> r.trace, start |-> start, stop |-> stop]
             /\ lastcall' = [op |-> "get_slice", rc |-> r.rc]
    /\ UNCHANGED <<host, codec_vars, sc, result, hist>>

NextSlice ==
    \/ CreateForSlice
    \/ FromBuffer
    \/ GetSlice
    \/ Drop

SpecSlice == InitLife /\ [][NextSlice]_vars

\* ------------------------------------------------------------------------
\* One chunk repartitioned into blocks
\* ------------------------------------------------------------------------

MaxRepartExtent == 3

MaxRepartItems == 12

\* arrays of one chunk: the repartitioner looks at the chunk and its blocks
RepartGeoms ==
    { g \in UNION { GeomsOf(n, MaxRepartExtent, MaxRepartItems) : n \in 1..MaxNdim } :
          g.shape = g.chunkshape }

CreateForRepart ==
    EmptyOf(RepartGeoms)

\* by how many bytes a caller may miss the size of a buffer
SizeErrors == {0 - MaxItemsize, 0, MaxItemsize}

\* the caller hands a chunk whose bytes all differ and a block of unwritten
\* memory to the repartitioner, each of the size the array asks for or not
Repartition ==
    /\ Usable /\ result = NoValue
    /\ \E rerr \in SizeErrors, cerr \in SizeErrors :
         LET rchunksize == arr.extchunknitems * arr.itemsize + rerr
             chunksize  == arr.chunknitems * arr.itemsize + cerr
             chunk      == Array(Pattern(chunksize))
             r == caterva_blosc_array_repart_chunk(Alloc(rchunksize), rchunksize,
                                                   chunk, chunksize, arr)
         IN  result' = [op |-> "repart_chunk", rc |-> r.rc, buffer |-> r.rchunk,
                        rchunksize |-> rchunksize, chunksize |-> chunksize,
                        chunk |-> chunk]
    /\ UNCHANGED <<host, codec_vars, arr, sc, lastcall, hist, copied>>

NextRepart ==
    \/ CreateForRepart
    \/ Repartition
    \/ Release

SpecRepart == InitLife /\ [][NextRepart]_vars

\* ------------------------------------------------------------------------
\* Reads at the edges: selections of no item, axes of no item
\* ------------------------------------------------------------------------

MaxEdgeNdim == 2

MaxEdgeExtent == 2

\* the geometries the argument checks let through, axes of no item among
\* them: on such an axis the chunk is not held to the extent of the axis
EdgeGeoms ==
    UNION { { [ndim |-> n, shape |-> Vec(n, t[1]),
               chunkshape |-> Vec(n, t[2]), blockshape |-> Vec(n, t[3])] :
                t \in { u \in [0..(n - 1) -> 0..MaxEdgeExtent]
                               \X [0..(n - 1) -> 1..MaxEdgeExtent]
                               \X [0..(n - 1) -> 1..MaxEdgeExtent] :
                            \A i \in 0..(n - 1) :
                               /\ u[1][i] = 0 \/ u[2][i] <= u[1][i]
                               /\ u[3][i] <= u[2][i] } } :
            n \in 1..MaxEdgeNdim }

CreateForEdge ==
    EmptyOf(EdgeGeoms)

\* the shapes of the destination a caller may choose for the selection
\* start..stop: that of the selection, and that of a chunk if it covers it
DstShapes(a, start, stop) ==
    { Extent(a.ndim, start, stop) }
    \cup { sh \in { a.chunkshape } :
              \A i \in 0..(a.ndim - 1) : stop[i] - start[i] <= sh[i] }

\* the read is the 1-dim read of one aligned chunk
AlignedRead(array, start, stop, shape) ==
    /\ array.ndim = 1
    /\ array.chunkshape[0] = shape[0]
    /\ array.chunkshape[0] = array.blockshape[0]
    /\ CMod(start[0], array.chunkshape[0]) = 0
    /\ CMod(stop[0], array.chunkshape[0]) = 0

\* what the general path of get_slice_buffer hands to the backend, clears in
\* block_maskout and copies: the chunk numbers, the block numbers, and the
\* offsets and the length of every memcpy
ReadAccesses(array, start, stop, shape) ==
    LET f == SliceChunks(SliceArrays(array, start, stop, shape), array.ndim)
        UsedChunk(k) == ChunkBlocks(MultiIndexFrom(f.i_shape, k, f.i_start), f)
        Used == { UsedChunk(k) :
                      k \in 0..(Prod(f.i_shape, 0, CATERVA_MAX_DIM - 1) - 1) }
        PartOf(c, jj) == BlockPart(jj, BlockStart(jj, c, f), BlockStop(jj, c, f), f,
                                   array.blocknitems)
        Parts(c) == { PartOf(c, MultiIndexFrom(c.j_shape, m, c.j_start)) :
                          m \in 0..(Prod(c.j_shape, 0, CATERVA_MAX_DIM - 1) - 1) }
    IN  [chunks |-> { c.nchunk : c \in Used },
         blocks |-> UNION { BlocksUsed(c, f) : c \in Used },
         copies |-> UNION { UNION { { CopyArgs(n, b, c, f, array.itemsize) :
                                        n \in 0..(Prod(b.sp_shape, 0,
                                                       CATERVA_MAX_DIM - 2) - 1) } :
                                    b \in Parts(c) } :
                            c \in Used }]

\* the caller reads a selection of a filled array, of some item or of none,
\* into unwritten memory of the shape it chooses
ReadEdge ==
    /\ Usable /\ result = NoValue
    /\ arr.filled
    /\ \E start \in Starts(arr) : \E stop \in Stops(arr, start) :
       \E shape \in DstShapes(arr, start, stop) :
         LET before == Alloc(Prod(shape, 0, arr.ndim - 1) * arr.itemsize)
             r == caterva_blosc_array_get_slice_buffer(arr, sc, start, stop, shape,
                                                       before, {})
         IN  /\ result' = [op |-> "get_slice_buffer", rc |-> r.rc,
                           buffer |-> r.buffer, before |-> before,
                           start |-> start, stop |-> stop, shape |-> shape,
                           aligned |-> AlignedRead(arr, start, stop, shape),
                           accesses |-> IF AlignedRead(arr, start, stop, shape)
                                        THEN NoValue
                                        ELSE ReadAccesses(arr, start, stop, shape)]
             /\ arr' = r.array
    /\ UNCHANGED <<host, codec_vars, sc, lastcall, hist, copied>>

NextEdge ==
    \/ CreateForEdge
    \/ FromBuffer
    \/ ReadEdge
    \/ Release

SpecEdge == InitLife /\ [][NextEdge]_vars

\* ------------------------------------------------------------------------
\* Claims about the dense contents (checked under Spec)
\* ------------------------------------------------------------------------

\* the row-major subrange start..stop of the dense buffer B of an array of
\* the given shape: cell c of the selection is cell start + c of the array
RefSlice(B, ndim, shape, itemsize, start, stop) ==
    LET ext == Extent(ndim, start, stop)
        Coord(c, i) == (c \div Prod(ext, i + 1, ndim - 1)) % ext[i]
        Src(c) == Weighted([i \in Dims |-> IF i < ndim THEN start[i] + Coord(c, i) ELSE 0],
                           shape, 0, ndim - 1)
    IN  [k \in 0..(Prod(ext, 0, ndim - 1) * itemsize - 1) |->
            B[Src(k \div itemsize) * itemsize + (k % itemsize)]]

\* C1: an array created empty and filled with from_buffer(B) makes to_buffer
\* write a buffer byte-equal to B, whatever the geometry.  B is the buffer
\* whose bytes all differ (the code moves bytes and never looks at them, so
\* what holds for this B holds for every B).
C1_RoundTrip ==
    (result # NoValue /\ result.op = "to_buffer" /\ hist.fill = "from_buffer")
        => result.buffer = Pattern(arr.nitems * arr.itemsize)

\* a round trip of 4 items in chunks of 3 and blocks of 2: the shape is no
\* multiple of the chunkshape, the chunkshape no multiple of the blockshape
C1_Witness ==
    /\ result # NoValue /\ result.op = "to_buffer" /\ hist.fill = "from_buffer"
    /\ arr.ndim = 1 /\ arr.itemsize = 2
    /\ arr.shape[0] = 4 /\ arr.chunkshape[0] = 3 /\ arr.blockshape[0] = 2
    /\ Len(sc.chunks) = 2
    /\ result.buffer = Pattern(8)

\* C2: for an array filled by from_buffer and every start <= stop <= shape,
\* get_slice_buffer with a destination of shape stop - start writes exactly
\* the row-major subrange start..stop of the dense contents: every selected
\* cell is copied (no byte of the destination is left unwritten), no padded
\* cell is (the padding is zero, no byte of B is), nothing lands elsewhere.
C2_Slice ==
    (result # NoValue /\ result.op = "get_slice_buffer" /\ hist.fill = "from_buffer")
        => result.buffer = RefSlice(Pattern(arr.nitems * arr.itemsize), arr.ndim,
                                    arr.shape, arr.itemsize, result.start, result.stop)

\* rows 1..2 of column 1 of a 3 x 2 array cut into chunks of 2 x 2 and blocks
\* of 2 x 1: the selection starts inside a block and crosses a chunk border
C2_Witness ==
    /\ result # NoValue /\ result.op = "get_slice_buffer" /\ hist.fill = "from_buffer"
    /\ arr.ndim = 2 /\ arr.itemsize = 2
    /\ arr.shape[0] = 3 /\ arr.chunkshape[0] = 2 /\ arr.blockshape[0] = 2
    /\ arr.shape[1] = 2 /\ arr.chunkshape[1] = 2 /\ arr.blockshape[1] = 1
    /\ result.start[0] = 1 /\ result.start[1] = 1
    /\ result.stop[0] = 3 /\ result.stop[1] = 2
    /\ result.buffer = [k \in 0..3 |-> <<7, 8, 11, 12>>[k + 1]]

\* ------------------------------------------------------------------------
\* Claims about the life of the array (checked under SpecLife and SpecOpen)
\* ------------------------------------------------------------------------

\* the geometry invariant of array a
GeometryHolds(a) ==
    /\ \A i \in 0..(a.ndim - 1) :
          a.shape[i] > 0 =>
              /\ a.chunkshape[i] # 0 /\ a.blockshape[i] # 0
              /\ CMod(a.extshape[i], a.chunkshape[i]) = 0
              /\ a.extshape[i] >= a.shape[i]
              /\ a.extshape[i] - a.shape[i] < a.chunkshape[i]
              /\ CMod(a.extchunkshape[i], a.blockshape[i]) = 0
              /\ a.extchunkshape[i] >= a.chunkshape[i]
    /\ a.nitems = Prod(a.shape, 0, a.ndim - 1)
    /\ a.chunknitems = Prod(a.chunkshape, 0, a.ndim - 1)
    /\ a.blocknitems = Prod(a.blockshape, 0, a.ndim - 1)
    /\ a.extnitems = Prod(a.extshape, 0, a.ndim - 1)
    /\ a.extchunknitems = Prod(a.extchunkshape, 0, a.ndim - 1)

AfterGeometryCall ==
    /\ arr # NoValue /\ lastcall # NoValue
    /\ lastcall.op \in {"empty", "open", "squeeze", "squeeze_index"}
    /\ lastcall.rc = CATERVA_SUCCEED

\* C7: after a successful empty, open, squeeze or squeeze_index the padded
\* extents are multiples of the chunk and block extents, not smaller than
\* and less than one part away from the extents they pad, and the counters
\* are the products of their vectors.  (The claim as stated: it fails after
\* open on a big-endian host.)
C7_GeometryInvariant ==
    AfterGeometryCall => GeometryHolds(arr)

\* what does hold of the geometry: the invariant on a little-endian host
GeometryLittleEndian ==
    (AfterGeometryCall /\ host = "little") => GeometryHolds(arr)

\* the chunks the backend of array a holds are those of a filled array
HoldsAll(a, schunk) ==
    Len(schunk.chunks) = CDiv(a.extnitems, a.chunknitems)

\* C8: after every successful call, filled holds of the array, and of the
\* destination of a copy, exactly when its backend holds extnitems /
\* chunknitems chunks.  (The claim as stated: copy breaks it.)
C8_FilledIffComplete ==
    /\ (arr # NoValue /\ lastcall # NoValue /\ lastcall.rc = CATERVA_SUCCEED)
           => (arr.filled <=> HoldsAll(arr, sc))
    /\ (copied # NoValue /\ copied.rc = CATERVA_SUCCEED)
           => (copied.array.filled <=> HoldsAll(copied.array, copied.sc))

AfterSqueeze ==
    /\ result # NoValue /\ result.op = "to_buffer"
    /\ lastcall # NoValue /\ lastcall.op \in {"squeeze", "squeeze_index"}
    /\ lastcall.rc = CATERVA_SUCCEED
    /\ lastcall.dense # NoValue

\* C9: to_buffer after a successful squeeze or squeeze_index of a filled
\* array writes the bytes to_buffer wrote before it, and the stored chunks
\* are those of before.
C9_SqueezeKeepsContents ==
    AfterSqueeze =>
        /\ result.buffer = lastcall.dense
        /\ sc.chunks = lastcall.before.sc.chunks

\* a 2 x 1 x 2 array read, squeezed to 2 x 2 and read again
C9_Witness ==
    /\ AfterSqueeze
    /\ lastcall.before.arr.ndim = 3
    /\ lastcall.before.arr.shape[0] = 2 /\ lastcall.before.arr.shape[1] = 1
    /\ lastcall.before.arr.shape[2] = 2
    /\ hist.fill = "from_buffer"
    /\ arr.ndim = 2 /\ arr.shape[0] = 2 /\ arr.shape[1] = 2
    /\ result.buffer = Pattern(8)

\* C10: squeeze_index with a mask that flags an axis of another extent than
\* 1 returns INVALID_INDEX and leaves every field of the array and the
\* super-chunk, the blob included, as they were.
C10_InvalidIndexKeepsArray ==
    (lastcall # NoValue /\ lastcall.op = "squeeze_index"
     /\ lastcall.rc = CATERVA_ERR_INVALID_INDEX)
        => /\ arr = lastcall.before.arr
           /\ sc = lastcall.before.sc

\* a mask refused on a filled 1 x 2 array: it flags the axis of extent 2
C10_Witness ==
    /\ lastcall # NoValue /\ lastcall.op = "squeeze_index"
    /\ lastcall.rc = CATERVA_ERR_INVALID_INDEX
    /\ arr.ndim = 2 /\ arr.shape[0] = 1 /\ arr.shape[1] = 2
    /\ arr.filled /\ sc.meta # NoValue

\* the ndim byte of the "caterva" blob: the third byte, read as int8
BlobNdim(schunk) ==
    IF Byte(schunk.meta, 2) >= 128 THEN Byte(schunk.meta, 2) - 256
    ELSE Byte(schunk.meta, 2)

\* C17: after every successful call the ndim of the array, and the ndim
\* byte of the blob its super-chunk holds, lie in 1..CATERVA_MAX_DIM.  (The
\* claim as stated: squeezing an array whose every axis has extent 1
\* leaves ndim 0.)
C17_NdimInRange ==
    (arr # NoValue /\ lastcall # NoValue /\ lastcall.rc = CATERVA_SUCCEED)
        => /\ arr.ndim \in 1..CATERVA_MAX_DIM
           /\ BlobNdim(sc) \in 1..CATERVA_MAX_DIM

\* what does hold of ndim: it is never negative nor above CATERVA_MAX_DIM,
\* and the blob carries the ndim of the array
NdimBounded ==
    (arr # NoValue /\ lastcall # NoValue /\ lastcall.rc = CATERVA_SUCCEED)
        => /\ arr.ndim \in 0..CATERVA_MAX_DIM
           /\ BlobNdim(sc) = arr.ndim

\* a read was made through the cache
CachedRead ==
    /\ result # NoValue /\ result.op = "get_slice_buffer"
    /\ arr.chunk_cache.data # NoValue

\* C15 (checked under SpecCache): whatever reads went before, a
\* get_slice_buffer through the cache slot writes the bytes and returns the
\* code of the same call made with a local chunk buffer.
C15_CacheTransparent ==
    CachedRead =>
        /\ result.buffer = result.plain.buffer
        /\ result.rc = result.plain.rc

\* a read that found another chunk in the cache and left in it blocks that
\* were masked out of its own decompression
C15_Witness ==
    /\ CachedRead
    /\ result.cached.nchunk >= 0
    /\ arr.chunk_cache.nchunk >= 0
    /\ arr.chunk_cache.nchunk # result.cached.nchunk
    /\ \E k \in DOMAIN arr.chunk_cache.data :
          /\ arr.chunk_cache.data[k] # Junk
          /\ arr.chunk_cache.data[k] # sc.chunks[arr.chunk_cache.nchunk + 1][k]
    /\ result.rc = CATERVA_SUCCEED
    /\ \A k \in DOMAIN result.buffer : result.buffer[k] \in 1..255

\* the result codes of an error
ErrorCodes ==
    {CATERVA_ERR_INVALID_ARGUMENT, CATERVA_ERR_BLOSC_FAILED,
     CATERVA_ERR_INVALID_INDEX, CATERVA_ERR_NULL_POINTER}

\* C14 (checked under SpecVersion): from_schunk on a super-chunk whose blob
\* carries a version byte above CATERVA_METALAYER_VERSION returns an error
\* code and hands back no array.  (The claim as stated: the version is only
\* asserted on, and with the asserts compiled out from_schunk returns
\* SUCCEED with an array built from the blob.)
C14_NewerVersionRefused ==
    (lastcall # NoValue /\ lastcall.op = "open"
     /\ lastcall.version > CATERVA_METALAYER_VERSION)
        => /\ lastcall.rc \in ErrorCodes
           /\ lastcall.array = NoValue

\* what does hold: a blob of a known version is opened in every build
KnownVersionOpens ==
    (lastcall # NoValue /\ lastcall.op = "open"
     /\ lastcall.version <= CATERVA_METALAYER_VERSION)
        => /\ lastcall.rc = CATERVA_SUCCEED
           /\ lastcall.array # NoValue

\* ------------------------------------------------------------------------
\* Claims about writes and reads (checked under SpecWrite)
\* ------------------------------------------------------------------------

\* the write just returned was refused a chunk by the backend
WriteRefused ==
    /\ lastcall # NoValue
    /\ \/ lastcall.op = "append" /\ lastcall.fault
       \/ lastcall.op = "from_buffer" /\ lastcall.faults # {}

\* the read just returned was refused a chunk it asked the backend for
ReadRefused ==
    /\ result # NoValue
    /\ result.op \in {"to_buffer", "get_slice_buffer"}
    /\ result.faults \cap result.read # {}

\* C11: an append, a from_buffer, a get_slice_buffer or a to_buffer during
\* which the backend returns a negative value returns BLOSC_FAILED.  (The
\* claim as stated: from_buffer, to_buffer and the general path of
\* get_slice_buffer return SUCCEED.)
C11_BackendErrorsSurface ==
    /\ WriteRefused => lastcall.rc = CATERVA_ERR_BLOSC_FAILED
    /\ ReadRefused => result.rc = CATERVA_ERR_BLOSC_FAILED

\* what does hold: append surfaces the refusal of its chunk
AppendErrorSurfaces ==
    (lastcall # NoValue /\ lastcall.op = "append" /\ lastcall.fault)
        => lastcall.rc = CATERVA_ERR_BLOSC_FAILED

\* the fields a write moves from one append boundary to the next
Boundary(a) ==
    [nchunks          |-> a.nchunks,
     filled           |-> a.filled,
     empty            |-> a.empty,
     next_chunkshape  |-> a.next_chunkshape,
     next_chunknitems |-> a.next_chunknitems]

\* C12: after a write the backend refused a chunk of, nchunks is the number
\* of chunks the backend holds, and after a refused append nchunks,
\* filled, empty, next_chunkshape and next_chunknitems are those of before
\* the call.  (The claim as stated: from_buffer counts the refused chunk.)
C12_FailedWriteKeepsBoundary ==
    WriteRefused =>
        /\ arr.nchunks = Len(sc.chunks)
        /\ lastcall.op = "append" => Boundary(arr) = Boundary(lastcall.before.arr)

\* what does hold: a refused append leaves the array and the super-chunk as
\* they were
RefusedAppendKeepsArray ==
    (lastcall # NoValue /\ lastcall.op = "append" /\ lastcall.fault)
        => /\ arr = lastcall.before.arr
           /\ sc = lastcall.before.sc

\* C13: at the return of append, from_buffer and get_slice_buffer, whatever
\* the result, no buffer obtained from the allocator is still held.  (The
\* claim as stated: append returns BLOSC_FAILED with rchunk not released.)
C13_NoBufferOutlivesCall ==
    /\ (lastcall # NoValue /\ lastcall.op \in {"append", "from_buffer"})
           => lastcall.live = {}
    /\ (result # NoValue /\ result.op \in {"to_buffer", "get_slice_buffer"})
           => result.live = {}

\* the next chunk of array a is cut short by the end of the array
EdgeNext(a) ==
    a.next_chunknitems < a.chunknitems

\* C16: the short chunk of next_chunkshape appended as a trailing-edge
\* chunk leaves the backend, and the array, as the append of the full chunk
\* holding the same cells at its origin and zeros elsewhere does.
C16_EdgeChunkEquivalence ==
    (lastcall # NoValue /\ lastcall.op = "append" /\ ~lastcall.fault
     /\ lastcall.short /\ EdgeNext(lastcall.before.arr))
        => LET b    == lastcall.before
               full == ChunkToAppend(b.arr, Len(b.sc.chunks), FALSE)
               r    == caterva_append(b.arr, b.sc, full, Cardinality(DOMAIN full),
                                      FALSE)
           IN  /\ lastcall.rc = CATERVA_SUCCEED /\ r.rc = CATERVA_SUCCEED
               /\ sc = r.sc
               /\ arr = r.array
               /\ Cardinality(DOMAIN sc.chunks[Len(sc.chunks)])
                      = b.arr.extchunknitems * b.arr.itemsize

\* a short second chunk of 1 x 2 items appended to a 3 x 2 array of chunks
\* of 2 x 2: the backend holds it padded to 2 x 2
C16_Witness ==
    /\ lastcall # NoValue /\ lastcall.op = "append" /\ ~lastcall.fault
    /\ lastcall.short /\ EdgeNext(lastcall.before.arr)
    /\ lastcall.rc = CATERVA_SUCCEED
    /\ arr.ndim = 2 /\ arr.shape[0] = 3 /\ arr.shape[1] = 2
    /\ arr.chunkshape[0] = 2 /\ arr.chunkshape[1] = 2
    /\ arr.blockshape[0] = 2 /\ arr.blockshape[1] = 2
    /\ Len(sc.chunks) = 2
    /\ sc.chunks[2] = [k \in 0..7 |-> <<9, 10, 11, 12, 0, 0, 0, 0>>[k + 1]]

\* where chunk number n lies in the grid of chunks of array a, on axis i:
\* the chunks are numbered row by row
GridPosition(a, n, i) ==
    (n \div Prod([j \in Dims |-> a.extshape[j] \div a.chunkshape[j]],
                 i + 1, a.ndim - 1))
        % (a.extshape[i] \div a.chunkshape[i])

\* the extent on axis i of chunk number n of array a
ChunkExtent(a, n, i) ==
    IF GridPosition(a, n, i) = (a.extshape[i] \div a.chunkshape[i]) - 1
    THEN a.chunkshape[i] - (a.extshape[i] - a.shape[i])
    ELSE a.chunkshape[i]

\* a chunk was appended and it was not the last of the array
AppendedNotLast ==
    /\ lastcall # NoValue /\ lastcall.op = "append"
    /\ lastcall.rc = CATERVA_SUCCEED
    /\ lastcall.before.arr.nchunks + 1
          < CDiv(arr.extnitems, arr.chunknitems)

\* C18: after the successful append of chunk k, with chunk k + 1 still to
\* come, next_chunkshape is the extent of chunk k + 1 (the chunkshape, less
\* the padding on the axes where chunk k + 1 is the last one) and
\* next_chunknitems is its product.
C18_NextChunkShapeTracksGrid ==
    AppendedNotLast =>
        /\ \A i \in 0..(arr.ndim - 1) :
              arr.next_chunkshape[i]
                  = ChunkExtent(arr, lastcall.before.arr.nchunks + 1, i)
        /\ arr.next_chunknitems = Prod(arr.next_chunkshape, 0, arr.ndim - 1)

\* the second of the four chunks of a 3 x 2 array of chunks of 2 x 1 was
\* appended: the third one is 1 x 1
C18_Witness ==
    /\ AppendedNotLast
    /\ arr.ndim = 2 /\ arr.shape[0] = 3 /\ arr.shape[1] = 2
    /\ arr.chunkshape[0] = 2 /\ arr.chunkshape[1] = 1
    /\ lastcall.before.arr.nchunks = 1
    /\ lastcall.before.arr.next_chunkshape[0] = 2
    /\ lastcall.before.arr.next_chunkshape[1] = 1
    /\ arr.next_chunkshape[0] = 1 /\ arr.next_chunkshape[1] = 1
    /\ arr.next_chunknitems = 1

\* C19: a successful append increases nchunks by one, and on an array
\* filled by appends alone nchunks is the number of chunks the backend
\* holds.
C19_AppendCountsChunks ==
    /\ (lastcall # NoValue /\ lastcall.op = "append"
        /\ lastcall.rc = CATERVA_SUCCEED)
           => /\ arr.nchunks = lastcall.before.arr.nchunks + 1
              /\ Len(sc.chunks) = Len(lastcall.before.sc.chunks) + 1
    /\ (arr # NoValue /\ hist.fill \in {"none", "append"})
           => arr.nchunks = Len(sc.chunks)

\* the third append on an empty array of three chunks
C19_Witness ==
    /\ lastcall # NoValue /\ lastcall.op = "append"
    /\ lastcall.rc = CATERVA_SUCCEED
    /\ lastcall.before.arr.nchunks = 2
    /\ arr.nchunks = 3 /\ Len(sc.chunks) = 3
    /\ arr.filled

\* ------------------------------------------------------------------------
\* Claims about get_slice (checked under SpecSlice)
\* ------------------------------------------------------------------------

\* a selection was written into a new array
Sliced ==
    /\ copied # NoValue /\ copied.rc = CATERVA_SUCCEED
    /\ lastcall # NoValue /\ lastcall.op = "get_slice"

\* the request for chunk number c of the destination d of the selection
\* that begins at start and ends at stop
ExpectedRead(d, c, start, stop) ==
    [op    |-> "get_slice_buffer",
     start |-> Vec(d.ndim, [i \in Dims |->
                   start[i] + GridPosition(d, c, i) * d.chunkshape[i]]),
     stop  |-> Vec(d.ndim, [i \in Dims |->
                   IF start[i] + GridPosition(d, c, i) * d.chunkshape[i]
                        + ChunkExtent(d, c, i) < stop[i]
                   THEN start[i] + GridPosition(d, c, i) * d.chunkshape[i]
                        + ChunkExtent(d, c, i)
                   ELSE stop[i]]),
     shape |-> Vec(d.ndim, [i \in Dims |-> ChunkExtent(d, c, i)])]

\* call is the request exp on the axes of the array
SameRequest(call, exp, ndim) ==
    /\ call.op = exp.op
    /\ \A i \in 0..(ndim - 1) :
          /\ call.start[i] = exp.start[i]
          /\ call.stop[i] = exp.stop[i]
          /\ call.shape[i] = exp.shape[i]

ExpectedAppend(d, c) ==
    [op        |-> "append",
     chunksize |-> Prod([i \in Dims |-> ChunkExtent(d, c, i)], 0, d.ndim - 1)
                   * d.itemsize]

\* the dense contents of array a
DenseOf(a, schunk) ==
    caterva_blosc_array_to_buffer(a, schunk, Alloc(a.nitems * a.itemsize), {}).buffer

\* C20: get_slice makes, for every chunk of the grid of the destination in
\* row-major order, one get_slice_buffer of the range of the chunk, cut at
\* stop, then one append of next_chunknitems * itemsize bytes; the appends
\* are extnitems / chunknitems in all, and the destination then holds the
\* selection of the source.
C20_SliceOrdering ==
    Sliced =>
        LET d     == copied.array
            total == CDiv(d.extnitems, d.chunknitems)
        IN  /\ Len(copied.trace) = 2 * total
            /\ \A c \in 0..(total - 1) :
                  /\ SameRequest(copied.trace[2 * c + 1],
                                 ExpectedRead(d, c, copied.start, copied.stop),
                                 d.ndim)
                  /\ copied.trace[2 * c + 2] = ExpectedAppend(d, c)
            /\ Len(copied.sc.chunks) = total
            /\ d.nchunks = total /\ d.filled
            /\ DenseOf(d, copied.sc)
                  = RefSlice(DenseOf(arr, sc), arr.ndim, arr.shape, arr.itemsize,
                             copied.start, copied.stop)

\* rows 0..2 and column 1 of a 3 x 2 array selected into an array of
\* chunks of 2 x 1: a full chunk, then the short one
C20_Witness ==
    /\ Sliced
    /\ arr.ndim = 2 /\ arr.shape[0] = 3 /\ arr.shape[1] = 2
    /\ copied.start[0] = 0 /\ copied.start[1] = 1
    /\ copied.stop[0] = 3 /\ copied.stop[1] = 2
    /\ copied.array.chunkshape[0] = 2 /\ copied.array.chunkshape[1] = 1
    /\ Len(copied.trace) = 4
    /\ copied.trace[3].start[0] = 2 /\ copied.trace[3].stop[0] = 3
    /\ copied.trace[4].chunksize = 2
    /\ DenseOf(copied.array, copied.sc)
          = [k \in 0..5 |-> <<3, 4, 7, 8, 11, 12>>[k + 1]]

\* the step is a call of copy
CopyStep ==
    hist'.copies = hist.copies + 1

\* C22: copy leaves its source as it was: on the clone path and on the
\* get_slice path every field of the source array and the chunks it stores
\* are after the copy what they were before, also when the source is only
\* partially filled.  (The claim as stated: the clone path breaks it.)
C22_CopyKeepsSource ==
    [][CopyStep => (arr' = arr /\ sc' = sc)]_vars

\* what does hold: copy keeps the chunks of its source, and keeps a filled
\* source whole; on the get_slice path it keeps every source
CopyKeepsFilledSource ==
    [][CopyStep => /\ sc' = sc
                   /\ arr.filled => arr' = arr
                   /\ (\E i \in 0..(arr.ndim - 1) :
                          \/ copied'.array.chunkshape[i] # arr.chunkshape[i]
                          \/ copied'.array.blockshape[i] # arr.blockshape[i])
                      => arr' = arr]_vars

\* ------------------------------------------------------------------------
\* Claims about the repartitioner (checked under SpecRepart)
\* ------------------------------------------------------------------------

Repartitioned ==
    result # NoValue /\ result.op = "repart_chunk"

\* the row-major index of the cell idx of an array of n axes of dims items
RowIndex(idx, dims, n) ==
    LET acc[i \in 0..n] == IF i = 0 THEN 0 ELSE acc[i - 1] * dims[i - 1] + idx[i - 1]
    IN  acc[n]

\* the cells of a chunk of array a
ChunkCells(a) ==
    { c \in [0..(a.ndim - 1) -> 0..(MaxRepartExtent - 1)] :
          \A i \in 0..(a.ndim - 1) : c[i] < a.chunkshape[i] }

\* where the item of cell c goes: the blocks one after the other in the
\* row-major order of the grid of blocks, the cells of a block in row-major
\* order
BlockMajor(a, c) ==
    RowIndex([i \in 0..(a.ndim - 1) |-> c[i] \div a.blockshape[i]],
             [i \in 0..(a.ndim - 1) |-> a.extchunkshape[i] \div a.blockshape[i]],
             a.ndim) * a.blocknitems
    + RowIndex([i \in 0..(a.ndim - 1) |-> c[i] % a.blockshape[i]], a.blockshape, a.ndim)

\* C21: repart_chunk puts the item of every cell c of the chunk at the
\* position (row-major index of the block of c in the grid of blocks)
\* * blocknitems + (row-major index of c inside its block), leaves zero in
\* every other item of the output, and with an rchunksize or a chunksize
\* that is not the one of the array returns INVALID_ARGUMENT and writes
\* nothing to the output.
C21_RepartLayout ==
    Repartitioned =>
        IF \/ result.rchunksize # arr.extchunknitems * arr.itemsize
           \/ result.chunksize # arr.chunknitems * arr.itemsize
        THEN /\ result.rc = CATERVA_ERR_INVALID_ARGUMENT
             /\ result.buffer = Alloc(result.rchunksize)
        ELSE /\ result.rc = CATERVA_SUCCEED
             /\ DOMAIN result.buffer = 0..(arr.extchunknitems * arr.itemsize - 1)
             /\ \A c \in ChunkCells(arr) : \A b \in 0..(arr.itemsize - 1) :
                   result.buffer[BlockMajor(arr, c) * arr.itemsize + b]
                      = result.chunk[RowIndex(c, arr.chunkshape, arr.ndim)
                                     * arr.itemsize + b]
             /\ \A p \in 0..(arr.extchunknitems - 1) :
                   (\A c \in ChunkCells(arr) : BlockMajor(arr, c) # p)
                      => \A b \in 0..(arr.itemsize - 1) :
                            result.buffer[p * arr.itemsize + b] = 0

\* a chunk of 3 x 2 items in blocks of 2 x 1: four blocks of two items, the
\* lower two half padding
C21_Witness ==
    /\ Repartitioned /\ result.rc = CATERVA_SUCCEED
    /\ arr.ndim = 2 /\ arr.itemsize = 2
    /\ arr.chunkshape[0] = 3 /\ arr.chunkshape[1] = 2
    /\ arr.blockshape[0] = 2 /\ arr.blockshape[1] = 1
    /\ result.buffer = [k \in 0..15 |->
                           <<1, 2, 5, 6, 3, 4, 7, 8,
                             9, 10, 0, 0, 11, 12, 0, 0>>[k + 1]]

\* the sizes are checked before the output is touched
C21_RefusalWitness ==
    /\ Repartitioned /\ result.rc = CATERVA_ERR_INVALID_ARGUMENT
    /\ result.chunksize = arr.chunknitems * arr.itemsize
    /\ result.rchunksize > arr.extchunknitems * arr.itemsize

\* ------------------------------------------------------------------------
\* Claims about reads at the edges (checked under SpecEdge)
\* ------------------------------------------------------------------------

\* a selection of no item was read
EmptySelection ==
    /\ result # NoValue /\ result.op = "get_slice_buffer"
    /\ \E i \in 0..(arr.ndim - 1) : result.start[i] = result.stop[i]

\* C24: for a filled array and start <= stop <= shape with start[i] =
\* stop[i] on some axis, get_slice_buffer returns SUCCEED and leaves every
\* byte of the destination as it was, on the aligned 1-dim path (start =
\* stop = shape[0] included) and on the general path.  (The claim as
\* stated: the aligned path breaks it.)
C24_EmptySelectionWritesNothing ==
    EmptySelection =>
        /\ result.rc = CATERVA_SUCCEED
        /\ result.buffer = result.before

\* what does hold: on the general path a selection of no item writes nothing
EmptySelectionGeneralPath ==
    (EmptySelection /\ ~result.aligned) =>
        /\ result.rc = CATERVA_SUCCEED
        /\ result.buffer = result.before

\* a selection was read on the general path
GeneralRead ==
    /\ result # NoValue /\ result.op = "get_slice_buffer"
    /\ ~result.aligned

\* every block number cleared in block_maskout is one of the blocks of a
\* chunk
BlocksInRange(a, acc) ==
    \A n \in acc.blocks : 0 <= n /\ n < CDiv(a.extchunknitems, a.blocknitems)

\* every chunk number handed to the backend is one of the chunks of the
\* array
ChunksInRange(a, acc) ==
    \A n \in acc.chunks : 0 <= n /\ n < CDiv(a.extnitems, a.chunknitems)

\* every memcpy reads inside the chunk buffer and writes inside a
\* destination of dst bytes
CopiesInRange(a, acc, dst) ==
    \A m \in acc.copies :
        /\ m.len >= 0
        /\ 0 <= m.soff /\ m.soff + m.len <= a.extchunknitems * a.itemsize
        /\ 0 <= m.doff /\ m.doff + m.len <= dst

\* C23: on the general path of get_slice_buffer, for every geometry of the
\* data model (axes of no item included) and every 0 <= start <= stop <=
\* shape (selections of no item included), every block number cleared in the
\* mask is below extchunknitems / blocknitems, every chunk number handed to
\* the backend is below extnitems / chunknitems, and every copy reads inside
\* the chunk buffer and writes inside the destination.  (The claim as stated:
\* an axis of no item breaks it.)
C23_ReaderIndexesInRange ==
    GeneralRead =>
        /\ BlocksInRange(arr, result.accesses)
        /\ ChunksInRange(arr, result.accesses)
        /\ CopiesInRange(arr, result.accesses,
                         Cardinality(DOMAIN result.before))

\* what does hold: the indexes are in range when the array has some item,
\* whatever the selection
ReaderIndexesInRangeOfItems ==
    (GeneralRead /\ arr.nitems > 0) =>
        /\ BlocksInRange(arr, result.accesses)
        /\ ChunksInRange(arr, result.accesses)
        /\ CopiesInRange(arr, result.accesses,
                         Cardinality(DOMAIN result.before))

\* ------------------------------------------------------------------------
\* Claims about the metadata codec (checked under SpecMeta)
\* ------------------------------------------------------------------------

\* the big-endian encoding of v in size bytes, whatever the host
BEBytes(v, size) ==
    Reverse(LEBytes(v, size), size)

Bit(a, k) ==
    (a \div (2 ^ k)) % 2

BitOr(a, b) ==
    LET acc[k \in 0..8] ==
            IF k = 0 THEN 0
            ELSE acc[k - 1] + (2 ^ (k - 1)) *
                 (IF Bit(a, k - 1) = 1 \/ Bit(b, k - 1) = 1 THEN 1 ELSE 0)
    IN  acc[8]

\* the blob the wire format of the specification prescribes
ReferenceEntries(ndim, v, tag, size) ==
    LET out[i \in 0..ndim] ==
            IF i = 0 THEN << >>
            ELSE out[i - 1] \o <<tag>> \o AsSeq(BEBytes(v[i - 1], size), size)
    IN  out[ndim]

ReferenceBlob(p) ==
    <<149, CATERVA_METALAYER_VERSION, p.ndim>>
    \o <<BitOr(144, p.ndim)>> \o ReferenceEntries(p.ndim, p.shape, 211, 8)
    \o <<BitOr(144, p.ndim)>> \o ReferenceEntries(p.ndim, p.chunkshape, 210, 4)
    \o <<BitOr(144, p.ndim)>> \o ReferenceEntries(p.ndim, p.blockshape, 210, 4)

\* C3: deserialize_meta applied to the bytes serialize_meta produced returns
\* the same ndim and the same first ndim entries of shape, chunkshape and
\* blockshape, and 1 at every index >= ndim.  (The claim as stated: it fails
\* on a big-endian host, where swap_store copies an unwritten block.)
C3_MetaRoundTrip ==
    dmeta # NoValue =>
        /\ dmeta.ndim = params.ndim
        /\ \A i \in Dims :
              IF i < params.ndim
              THEN /\ dmeta.shape[i] = params.shape[i]
                   /\ dmeta.chunkshape[i] = params.chunkshape[i]
                   /\ dmeta.blockshape[i] = params.blockshape[i]
              ELSE /\ dmeta.shape[i] = 1
                   /\ dmeta.chunkshape[i] = 1
                   /\ dmeta.blockshape[i] = 1

\* C4: serialize_meta returns 3 + 3*(1 + ndim) + 16*ndim, and the bytes are
\* framed 0x95, version, ndim, then three arrays opened by 0x90|ndim, the
\* first of ndim entries tagged 0xd3 with 8 payload bytes, the second and
\* third of ndim entries tagged 0xd2 with 4 payload bytes.
C4_MetaFraming ==
    smeta # NoValue =>
        LET n  == params.ndim
            b  == smeta.smeta
            o1 == 3
            o2 == o1 + 1 + 9 * n
            o3 == o2 + 1 + 5 * n
        IN  /\ smeta.slen = 3 + 3 * (1 + n) + 16 * n
            /\ Len(b) = smeta.slen
            /\ b[1] = 149
            /\ b[2] = CATERVA_METALAYER_VERSION
            /\ b[3] = n
            /\ b[o1 + 1] = BitOr(144, n)
            /\ \A i \in 0..(n - 1) : b[o1 + 1 + 9 * i + 1] = 211
            /\ b[o2 + 1] = BitOr(144, n)
            /\ \A i \in 0..(n - 1) : b[o2 + 1 + 5 * i + 1] = 210
            /\ b[o3 + 1] = BitOr(144, n)
            /\ \A i \in 0..(n - 1) : b[o3 + 1 + 5 * i + 1] = 210
            /\ o3 + 1 + 5 * n = smeta.slen

\* C4 witness: a blob was produced for the largest ndim
C4_Witness ==
    /\ smeta # NoValue
    /\ params.ndim = CATERVA_MAX_DIM

C6_HostIndependent ==
    smeta # NoValue => smeta.smeta = ReferenceBlob(params)

\* what does hold of the codec: on a little-endian host the blob is the
\* reference blob and reads back as it was written
LittleEndianCodec ==
    host = "little" =>
        /\ smeta # NoValue => smeta.smeta = ReferenceBlob(params)
        /\ C3_MetaRoundTrip

====
